---- MODULE Spec2Model ----
(***************************************************************************)
(* A model of geometry/volume.hpp: the octree voxel grid Volume_t, the     *)
(* dense grid VolumeArray, the georeferencing layer GeoVolume_t, the       *)
(* scalar field operations downscale and getQuads, and the distance        *)
(* transform DistanceMap_t.                                                *)
(*                                                                         *)
(* Each group of operations has its own specification (SpecVol, SpecGeo,   *)
(* SpecQuads, SpecDist); the variables of the other groups stay at their   *)
(* initial values.                                                         *)
(***************************************************************************)
EXTENDS Integers, Sequences, FiniteSets

VARIABLES vol, arr, op, geo, gin, gop, dvField, pc

(***************************************************************************)
(* Bounds of the model.                                                    *)
(***************************************************************************)
\* largest grid dimension along one axis
MaxDim == 4

\* largest number of voxels of a grid of SpecVol
MaxVoxels == 8

\* largest requested extent of a GeoVolume along one axis, in half units
MaxExtent == 3

\* largest downscale factor
MaxFactor == 2

\* number of voxels of a scalar field that differ from its initValue
MaxChanged == 2

\* number of voxels of a scalar field
MaxFieldVoxels == 6

\* number of feature voxels of a bitfield
MaxFeatures == 2

\* Value_t of SpecVol is bool, as in Bitfield_t
Values == {0, 1}

(***************************************************************************)
(* Small helpers.                                                          *)
(***************************************************************************)
Max2(a, b) == IF a >= b THEN a ELSE b

Pos(x, y, z) == [x |-> x, y |-> y, z |-> z]

(***************************************************************************)
(* class Volume_t<Value_t>::Node_s                                         *)
(***************************************************************************)
OCT_X == 4

OCT_Y == 2

OCT_Z == 1

Solid(value) == [type |-> "SOLID", value |-> value]

Gray(subnodes) == [type |-> "GRAY", subnodes |-> subnodes]

\* nodeSize >> 1
Half(nodeSize) == nodeSize \div 2

findOctant(nodeSize, pos) ==
    (IF pos.x >= Half(nodeSize) THEN OCT_X ELSE 0)
  + (IF pos.y >= Half(nodeSize) THEN OCT_Y ELSE 0)
  + (IF pos.z >= Half(nodeSize) THEN OCT_Z ELSE 0)

\* octant & OCT_X, octant & OCT_Y, octant & OCT_Z for octant in 0..7
HasX(octant) == octant \div OCT_X = 1

HasY(octant) == (octant \div OCT_Y) % 2 = 1

HasZ(octant) == octant % 2 = 1

\* toOctant that leaves the position as it is
toOctantKeep(octant, nodeSize, pos) == pos

toOctant(octant, nodeSize, pos) ==
    Pos(IF HasX(octant) THEN pos.x - Half(nodeSize) ELSE pos.x,
        IF HasY(octant) THEN pos.y - Half(nodeSize) ELSE pos.y,
        IF HasZ(octant) THEN pos.z - Half(nodeSize) ELSE pos.z)

RECURSIVE NodeGet(_, _, _)
NodeGet(node, nodeSize, pos) ==
    IF node.type = "SOLID" THEN node.value
    ELSE LET octant == findOctant(nodeSize, pos)
         IN  NodeGet(node.subnodes[octant], Half(nodeSize),
                     toOctant(octant, nodeSize, pos))

\* the collapse test of Node_s::set, with the type test dropped
fullMatchAnyType(subnodes, value) ==
    \A i \in 0 .. 7 :
        subnodes[i].type = "SOLID" => subnodes[i].value = value

\* the collapse test of Node_s::set, never collapsing
fullMatchNever(subnodes, value) == FALSE

\* the collapse test of Node_s::set, with the value test dropped
fullMatchAnyValue(subnodes, value) ==
    \A i \in 0 .. 7 : subnodes[i].type = "SOLID"

\* the collapse test of Node_s::set
fullMatch(subnodes, value) ==
    \A i \in 0 .. 7 :
        ~ (subnodes[i].type # "SOLID" \/ subnodes[i].value # value)

RECURSIVE NodeSet(_, _, _, _)
NodeSet(node, nodeSize, pos, value) ==
    IF node.type = "SOLID" /\ node.value = value THEN node
    ELSE IF node.type = "SOLID" /\ nodeSize = 1 THEN Solid(value)
    ELSE LET gray == IF node.type = "SOLID"
                     THEN Gray([i \in 0 .. 7 |-> Solid(node.value)])
                     ELSE node
             octant == findOctant(nodeSize, pos)
             subnodes == [gray.subnodes EXCEPT ![octant] =
                            NodeSet(@, Half(nodeSize),
                                    toOctant(octant, nodeSize, pos), value)]
         IN  IF fullMatch(subnodes, value) THEN Solid(value)
             ELSE Gray(subnodes)

RECURSIVE NodeCount(_)
NodeCount(node) ==
    IF node.type = "GRAY"
    THEN 1 + NodeCount(node.subnodes[0]) + NodeCount(node.subnodes[1])
           + NodeCount(node.subnodes[2]) + NodeCount(node.subnodes[3])
           + NodeCount(node.subnodes[4]) + NodeCount(node.subnodes[5])
           + NodeCount(node.subnodes[6]) + NodeCount(node.subnodes[7])
    ELSE 1

(***************************************************************************)
(* class Volume_t<Value_t>                                                 *)
(***************************************************************************)
\* the least e with m <= 2^e, for m >= 1
RECURSIVE CeilLog2(_)
CeilLog2(m) == IF m <= 1 THEN 0 ELSE 1 + CeilLog2((m + 1) \div 2)

\* ceil( log( m ) / log( 2.0 ) ) for an int m >= 1, computed in doubles.
\* The quotient is a whole number for every m = 2^e but m = 2^29, where it
\* is 29.000000000000004; for the other m it lies between two whole
\* numbers, more than its rounding error away from both.
CeilLogQuotient(m) == IF m = 536870912 THEN 30 ELSE CeilLog2(m)

\* exp( log( 2.0 ) * e ), rounded to int
RECURSIVE Exp2(_)
Exp2(e) == IF e = 0 THEN 1 ELSE 2 * Exp2(e - 1)

\* _rootSize for the largest dimension m >= 0: log( 0 ) is -infinity, and
\* exp of it 0
rootSizeOf(m) == IF m = 0 THEN 0 ELSE Exp2(CeilLogQuotient(m))

Volume_t(sizeX, sizeY, sizeZ, initValue) ==
    [root      |-> Solid(initValue),
     rootSize  |-> rootSizeOf(Max2(sizeX, Max2(sizeY, sizeZ))),
     sizeX     |-> sizeX,
     sizeY     |-> sizeY,
     sizeZ     |-> sizeZ,
     initValue |-> initValue]

\* the range test of Volume_t::get and set, accepting the index one past the end
VolumeOutOfRangePastEnd(v, i, j, k) ==
    i < 0 \/ i > v.sizeX \/ j < 0 \/ j > v.sizeY \/ k < 0 \/ k > v.sizeZ

\* the range test of Volume_t::get and Volume_t::set
VolumeOutOfRange(v, i, j, k) ==
    i < 0 \/ i >= v.sizeX \/ j < 0 \/ j >= v.sizeY \/ k < 0 \/ k >= v.sizeZ

VolumeGet(v, i, j, k) ==
    IF VolumeOutOfRange(v, i, j, k) THEN v.initValue
    ELSE NodeGet(v.root, v.rootSize, Pos(i, j, k))

VolumeSet(v, i, j, k, value) ==
    IF VolumeOutOfRange(v, i, j, k) THEN v
    ELSE [v EXCEPT !.root = NodeSet(v.root, v.rootSize, Pos(i, j, k), value)]

nodeCount(v) == NodeCount(v.root)

(***************************************************************************)
(* class VolumeArray<Value_t>                                              *)
(***************************************************************************)
VolumeArray(sizeX, sizeY, sizeZ, initValue) ==
    [sizeX     |-> sizeX,
     sizeY     |-> sizeY,
     sizeZ     |-> sizeZ,
     initValue |-> initValue,
     data      |-> [n \in 0 .. (sizeX * sizeY * sizeZ - 1) |-> initValue]]

\* k + j*sizeZ + i*sizeZ*sizeY
ArrayIndex(a, i, j, k) == k + j * a.sizeZ + i * a.sizeZ * a.sizeY

\* the range test of VolumeArray::get and VolumeArray::set
ArrayOutOfRange(a, i, j, k) ==
    i < 0 \/ i >= a.sizeX \/ j < 0 \/ j >= a.sizeY \/ k < 0 \/ k >= a.sizeZ

ArrayGet(a, i, j, k) ==
    IF ArrayOutOfRange(a, i, j, k) THEN a.initValue
    ELSE a.data[ArrayIndex(a, i, j, k)]

ArraySet(a, i, j, k, value) ==
    IF ArrayOutOfRange(a, i, j, k) THEN a
    ELSE [a EXCEPT !.data[ArrayIndex(a, i, j, k)] = value]

(***************************************************************************)
(* Floating point.  A double is modelled by the rational it would hold in  *)
(* exact arithmetic, q, and a flag x: the value was rounded on the way, so *)
(* the double lies near q, on either side or on it.  An operation on       *)
(* unrounded operands whose exact result is a dyadic rational is exact.    *)
(* Where a rounded value is converted to an integer and q is a whole       *)
(* number, the side is an input of the conversion, drawn from Errs; where  *)
(* q is not a whole number it is taken to lie further from one than the    *)
(* rounding moved the value.  A value the code holds in a float is either  *)
(* flagged the same way (ToFloat) or rounded to the float it becomes       *)
(* (FloatRound).                                                           *)
(***************************************************************************)
Abs(a) == IF a < 0 THEN -a ELSE a

RECURSIVE GCD(_, _)
GCD(a, b) == IF b = 0 THEN a ELSE GCD(b, a % b)

\* the rational n/d in lowest terms, d > 0
Rat(n, d) ==
    LET g == GCD(Abs(n), Abs(d))
        sgn == IF d < 0 THEN -1 ELSE 1
    IN  [n |-> sgn * (n \div g), d |-> sgn * (d \div g)]

RInt(i) == [n |-> i, d |-> 1]

RAdd(a, b) == Rat(a.n * b.d + b.n * a.d, a.d * b.d)

RSub(a, b) == Rat(a.n * b.d - b.n * a.d, a.d * b.d)

RMul(a, b) == Rat(a.n * b.n, a.d * b.d)

RDiv(a, b) == Rat(a.n * b.d, a.d * b.n)

RLess(a, b) == a.n * b.d < b.n * a.d

RLeq(a, b) == a.n * b.d <= b.n * a.d

RAbs(a) == [n |-> Abs(a.n), d |-> a.d]

RIsInt(a) == a.d = 1

\* std::floor and std::ceil of an exact value
RFloor(a) == a.n \div a.d

RCeil(a) == -((-a.n) \div a.d)

RECURSIVE IsPow2(_)
IsPow2(d) == d = 1 \/ (d % 2 = 0 /\ IsPow2(d \div 2))

\* the exact value is a double
Dyadic(a) == IsPow2(a.d)

Exact(q) == [q |-> q, x |-> FALSE]

FInt(i) == Exact(RInt(i))

Flt(q, rounded) == [q |-> q, x |-> rounded \/ ~ Dyadic(q)]

FAdd(a, b) == Flt(RAdd(a.q, b.q), a.x \/ b.x)

FSub(a, b) == Flt(RSub(a.q, b.q), a.x \/ b.x)

FMul(a, b) == Flt(RMul(a.q, b.q), a.x \/ b.x)

FDiv(a, b) == Flt(RDiv(a.q, b.q), a.x \/ b.x)

\* the sides of q a rounded double can lie on: below, on, above
Errs(f) == IF f.x THEN {-1, 0, 1} ELSE {0}

\* floor( f ), ceil( f ) and round( f ) of the double on side err of f.q;
\* round is C's: halfway cases go away from zero
FFloor(f, err) ==
    IF err = -1 /\ RIsInt(f.q) THEN f.q.n - 1 ELSE RFloor(f.q)

FCeil(f, err) ==
    IF err = 1 /\ RIsInt(f.q) THEN f.q.n + 1 ELSE RCeil(f.q)

\* conversion to int without round( ): truncation toward zero
FTrunc(f, err) ==
    IF f.q.n > 0 \/ (f.q.n = 0 /\ err >= 0) THEN FFloor(f, err)
    ELSE FCeil(f, err)

FRound(f, err) ==
    LET twice == RMul(f.q, RInt(2))
        half == RIsInt(twice) /\ ~ RIsInt(f.q)
    IN  IF f.q.n >= 0
        THEN IF half /\ err = -1 THEN RFloor(f.q)
             ELSE RFloor(RAdd(f.q, Rat(1, 2)))
        ELSE IF half /\ err = 1 THEN RCeil(f.q)
             ELSE RCeil(RSub(f.q, Rat(1, 2)))

FPos(x, y, z) == [x |-> x, y |-> y, z |-> z]

FAbs(f) == [q |-> RAbs(f.q), x |-> f.x]

\* n without its factors of two, for n > 0
RECURSIVE OddPart(_)
OddPart(n) == IF n % 2 = 0 THEN OddPart(n \div 2) ELSE n

\* the exact value is a float: a dyadic rational with a significand of at
\* most 24 bits (the exponent range is left aside)
FitsFloat(a) == a.n = 0 \/ (Dyadic(a) /\ OddPart(Abs(a.n)) < 16777216)

\* the whole number nearest to num / den, the even one of two, for
\* num >= 0 and den > 0
RoundHalfEven(num, den) ==
    IF 2 * (num % den) < den THEN num \div den
    ELSE IF 2 * (num % den) > den THEN (num \div den) + 1
    ELSE (num \div den) + ((num \div den) % 2)

\* the e with 2^23 <= ( n / d ) * 2^e < 2^24, for 2^-7 <= n / d < 2^23 and
\* d < 64; the bounds are divided by 2^e, rounded up
FloatScaleUp(n, d) ==
    CHOOSE e \in 0 .. 30 :
        /\ n >= (8388608 * d + Exp2(e) - 1) \div Exp2(e)
        /\ n < (16777216 * d + Exp2(e) - 1) \div Exp2(e)

\* the e with 2^23 <= ( n / d ) / 2^e < 2^24, for 2^23 <= n / d < 2^31
FloatScaleDown(n, d) ==
    CHOOSE e \in 0 .. 7 : (n \div d) \div Exp2(e) \in 8388608 .. 16777215

\* the float nearest to n / d > 0: the value is scaled into [2^23, 2^24),
\* where the floats are the whole numbers, rounded, and scaled back
FloatRoundPos(n, d) ==
    IF n \div d < 8388608
    THEN Rat(RoundHalfEven(n * Exp2(FloatScaleUp(n, d)), d),
             Exp2(FloatScaleUp(n, d)))
    ELSE RInt(RoundHalfEven(n, d * Exp2(FloatScaleDown(n, d)))
              * Exp2(FloatScaleDown(n, d)))

\* the conversion of an exact value to float, round to nearest even
FloatRound(a) ==
    CHOOSE r \in {IF FitsFloat(v) THEN v
                  ELSE RMul(RInt(IF v.n > 0 THEN 1 ELSE -1),
                            FloatRoundPos(Abs(v.n), v.d)) : v \in {a}} : TRUE

\* the float a float operation or a conversion to float yields: the value
\* rounded to the nearest float; the rounded flag of the operand stays
FloatOf(f) ==
    CHOOSE r \in {[q |-> FloatRound(v.q), x |-> v.x] : v \in {f}} : TRUE

\* a double assigned to a float variable, as a rounded value: the rounded
\* flag is set unless the value is a float
ToFloat(f) == [q |-> f.q, x |-> f.x \/ ~ FitsFloat(f.q)]

\* a < b, with the whole parts compared first and the products of the
\* rest kept small
RLessWide(a, b) ==
    IF RFloor(a) # RFloor(b) THEN RFloor(a) < RFloor(b)
    ELSE (a.n - RFloor(a) * a.d) * (b.d \div GCD(a.d, b.d))
         < (b.n - RFloor(b) * b.d) * (a.d \div GCD(a.d, b.d))

(***************************************************************************)
(* class GeoVolume_t: the georeferencing of a container.  The grid         *)
(* dimensions are those of the container the constructor builds.           *)
(***************************************************************************)
\* int( std::ceil( ( upper - lower ) / voxelSize ) ), with floor for ceil
CountFloor(lower, upper, voxelSize, err) ==
    FFloor(FDiv(FSub(upper, lower), voxelSize), err)

\* int( std::ceil( ( upper - lower ) / voxelSize ) ); err is the side of the
\* exact quotient the double lies on
Count(lower, upper, voxelSize, err) ==
    FCeil(FDiv(FSub(upper, lower), voxelSize), err)

\* the sides the quotient of Count can lie on, per axis
GeoErrs(lower, upper, voxelSize) ==
    {Pos(ex, ey, ez) :
        ex \in Errs(FDiv(FSub(upper.x, lower.x), voxelSize)),
        ey \in Errs(FDiv(FSub(upper.y, lower.y), voxelSize)),
        ez \in Errs(FDiv(FSub(upper.z, lower.z), voxelSize))}

GeoVolume_t(lower, upper, voxelSize, err) ==
    LET sizeX == Count(lower.x, upper.x, voxelSize, err.x)
        sizeY == Count(lower.y, upper.y, voxelSize, err.y)
        sizeZ == Count(lower.z, upper.z, voxelSize, err.z)
    IN  [sizeX |-> sizeX, sizeY |-> sizeY, sizeZ |-> sizeZ,
         lower |-> lower,
         upper |-> FPos(FAdd(lower.x, FMul(FInt(sizeX), voxelSize)),
                        FAdd(lower.y, FMul(FInt(sizeY), voxelSize)),
                        FAdd(lower.z, FMul(FInt(sizeZ), voxelSize))),
         voxelSize |-> voxelSize]

\* ( gpos - lower ) / ( upper - lower ) * size - 0.5 on one axis
geo2gridfAxis(gpos, lower, upper, size) ==
    FSub(FMul(FDiv(FSub(gpos, lower), FSub(upper, lower)), FInt(size)),
         Exact(Rat(1, 2)))

geo2gridf(g, gpos) ==
    FPos(geo2gridfAxis(gpos.x, g.lower.x, g.upper.x, g.sizeX),
         geo2gridfAxis(gpos.y, g.lower.y, g.upper.y, g.sizeY),
         geo2gridfAxis(gpos.z, g.lower.z, g.upper.z, g.sizeZ))

\* case 0 of geo2grid, the result converted to int without round( )
RoundNearestTrunc(fpos, err) == FTrunc(fpos, err)

\* case 0 of geo2grid: round( fpos )
RoundNearest(fpos, err) == FRound(fpos, err)

\* one switch of geo2grid
RoundAxis(fpos, rounding, err) ==
    CASE rounding = 0 -> RoundNearest(fpos, err)
      [] rounding = -1 -> FFloor(fpos, err)
      [] rounding = 1 -> FCeil(fpos, err)

\* err: per axis, the side of the exact value the rounded double lies on
geo2grid(g, gpos, roundingX, roundingY, roundingZ, err) ==
    LET fpos == geo2gridf(g, gpos)
    IN  Pos(RoundAxis(fpos.x, roundingX, err.x),
            RoundAxis(fpos.y, roundingY, err.y),
            RoundAxis(fpos.z, roundingZ, err.z))

\* lower + ( pos + 0.5 ) / size * ( upper - lower ) on one axis
grid2geoAxis(pos, lower, upper, size) ==
    FAdd(lower, FMul(FDiv(FAdd(pos, Exact(Rat(1, 2))), FInt(size)),
                     FSub(upper, lower)))

\* grid2geo( const Position_s & )
grid2geo(g, pos) ==
    FPos(grid2geoAxis(FInt(pos.x), g.lower.x, g.upper.x, g.sizeX),
         grid2geoAxis(FInt(pos.y), g.lower.y, g.upper.y, g.sizeY),
         grid2geoAxis(FInt(pos.z), g.lower.z, g.upper.z, g.sizeZ))

\* grid2geo( const FPosition_s & )
grid2geof(g, pos) ==
    FPos(grid2geoAxis(pos.x, g.lower.x, g.upper.x, g.sizeX),
         grid2geoAxis(pos.y, g.lower.y, g.upper.y, g.sizeY),
         grid2geoAxis(pos.z, g.lower.z, g.upper.z, g.sizeZ))

\* float shift = ( ( factor - 1 ) * voxelSize ) / 2
downscaleShift(g, factor) ==
    ToFloat(FDiv(FMul(FInt(factor - 1), g.voxelSize), FInt(2)))

\* FPosition_s ll( lower.x - shift, lower.y - shift, lower.z - shift )
downscaleLower(g, factor) ==
    FPos(FSub(g.lower.x, downscaleShift(g, factor)),
         FSub(g.lower.y, downscaleShift(g, factor)),
         FSub(g.lower.z, downscaleShift(g, factor)))

\* the sides the quotients of the voxel counts of tmp can lie on
downscaleErrs(g, factor) ==
    GeoErrs(downscaleLower(g, factor), g.upper,
            FMul(g.voxelSize, FInt(factor)))

\* downscale with tmp built on the old lower corner
downscaleNoShift(g, factor, err) ==
    GeoVolume_t(g.lower, g.upper, FMul(g.voxelSize, FInt(factor)), err)

\* ScalarField_t::downscale: the georeferencing of the field it leaves, tmp
\* ( ll, upper, voxelSize * factor, 0 )
downscale(g, factor, err) ==
    GeoVolume_t(downscaleLower(g, factor), g.upper,
                FMul(g.voxelSize, FInt(factor)), err)

(***************************************************************************)
(* SpecVol: one octree and one dense array of the same dimensions and      *)
(* initValue receive the same calls.  op records the last call: whether    *)
(* its coordinate was out of range, the value written or the two values    *)
(* read, and the octree's node count before the call.                      *)
(***************************************************************************)
vars == <<vol, arr, op, geo, gin, gop, dvField, pc>>

volVars == <<vol, arr, op>>

geoVars == <<geo, gin, gop>>

distVars == <<dvField, pc>>

NoDist == [kind |-> "none"]

NoOp == [kind |-> "none"]

NoGeo == [kind |-> "none"]

\* the coordinates a call is made with: one step beyond the grid on each side
CoordsX(c) == -1 .. c.sizeX

CoordsY(c) == -1 .. c.sizeY

CoordsZ(c) == -1 .. c.sizeZ

\* the coordinate lies outside [0,sizeX) x [0,sizeY) x [0,sizeZ)
Outside(c, i, j, k) ==
    ~ (i \in 0 .. (c.sizeX - 1) /\ j \in 0 .. (c.sizeY - 1)
       /\ k \in 0 .. (c.sizeZ - 1))

InitVol ==
    \E sx \in 1 .. MaxDim, sy \in 1 .. MaxDim, sz \in 1 .. MaxDim,
       iv \in Values :
        /\ sx * sy * sz <= MaxVoxels
        /\ vol = Volume_t(sx, sy, sz, iv)
        /\ arr = VolumeArray(sx, sy, sz, iv)
        /\ op = NoOp
        /\ geo = NoGeo
        /\ gin = NoOp
        /\ gop = NoOp
        /\ dvField = NoDist
        /\ pc = NoDist

Set ==
    \E i \in CoordsX(vol), j \in CoordsY(vol), k \in CoordsZ(vol),
       value \in Values :
        /\ vol' = VolumeSet(vol, i, j, k, value)
        /\ arr' = ArraySet(arr, i, j, k, value)
        /\ op' = [kind |-> "set", out |-> Outside(vol, i, j, k),
                  value |-> value, before |-> nodeCount(vol)]
        /\ UNCHANGED <<geoVars, distVars>>

Get ==
    \E i \in CoordsX(vol), j \in CoordsY(vol), k \in CoordsZ(vol) :
        /\ op' = [kind |-> "get", out |-> Outside(vol, i, j, k),
                  value |-> VolumeGet(vol, i, j, k),
                  avalue |-> ArrayGet(arr, i, j, k)]
        /\ UNCHANGED <<vol, arr>>
        /\ UNCHANGED <<geoVars, distVars>>

NextVol == Set \/ Get

SpecVol == InitVol /\ [][NextVol]_vars

(***************************************************************************)
(* SpecGeo: a GeoVolume is constructed and takes the calls of one run,     *)
(* drawn at the start and held in gin: geo2grid of a world point and       *)
(* grid2geo of its result; grid2geo of a grid position and geo2grid of     *)
(* its result; or downscale.  gop records the last call, its arguments and *)
(* its result, and src the call whose result it took as its argument.      *)
(***************************************************************************)
\* the lower corner a GeoVolume is constructed with
Lowers == {FPos(Exact(Rat(1, 2)), FInt(0), Exact(Rat(-3, 2)))}

\* the requested extents along one axis
Extents == {Exact(Rat(e, 2)) : e \in 1 .. MaxExtent}

VoxelSizes == {Exact(Rat(1, 2)), FInt(1)}

\* the double nearest to n / d, a value that is no binary fraction
Rounded(n, d) == Flt(Rat(n, d), TRUE)

\* constructions on corners and voxel sizes that are binary fractions: the
\* difference, the quotient and the product of the constructor are exact
\* unless the quotient is no binary fraction
ExactConstructions ==
    {[lower |-> lower,
      upper |-> FPos(FAdd(lower.x, ex), FAdd(lower.y, ey), FAdd(lower.z, ez)),
      voxelSize |-> voxelSize] :
        lower \in Lowers, ex \in Extents, ey \in Extents, ez \in Extents,
        voxelSize \in VoxelSizes}

\* constructions on decimal corners and voxel sizes, whose doubles are
\* rounded: (-0.5, 0, 0), (0.1, 0.25, 0.25), 0.3 and (0.3, 0, 0),
\* (0.4, 0.0625, 0.0625), 0.1; along x the extent is a whole number of
\* voxels, 2 and 1, along y and z it is not
RoundingConstructions ==
    {[lower |-> FPos(Exact(Rat(-1, 2)), FInt(0), FInt(0)),
      upper |-> FPos(Rounded(1, 10), Exact(Rat(1, 4)), Exact(Rat(1, 4))),
      voxelSize |-> Rounded(3, 10)],
     [lower |-> FPos(Rounded(3, 10), FInt(0), FInt(0)),
      upper |-> FPos(Rounded(2, 5), Exact(Rat(1, 16)), Exact(Rat(1, 16))),
      voxelSize |-> Rounded(1, 10)]}

Constructions == ExactConstructions \cup RoundingConstructions

\* world coordinates along one axis from lower to upper in half voxels
WorldAxis(lower, voxelSize, size) ==
    {FAdd(lower, FMul(Exact(Rat(m, 2)), voxelSize)) : m \in 0 .. (2 * size)}

WorldPoints(g) ==
    {FPos(x, y, z) : x \in WorldAxis(g.lower.x, g.voxelSize, g.sizeX),
                     y \in WorldAxis(g.lower.y, g.voxelSize, g.sizeY),
                     z \in WorldAxis(g.lower.z, g.voxelSize, g.sizeZ)}

GridPoints(g) ==
    {Pos(i, j, k) : i \in -1 .. g.sizeX, j \in -1 .. g.sizeY,
                    k \in -1 .. g.sizeZ}

Roundings == {Pos(rx, ry, rz) : rx \in {-1, 0, 1}, ry \in {-1, 0, 1},
                                rz \in {-1, 0, 1}}

\* the runs made on GeoVolume g
Runs(g) ==
    {[kind |-> "point", gpos |-> gpos, rounding |-> r] :
        gpos \in WorldPoints(g), r \in Roundings}
    \cup {[kind |-> "grid", pos |-> pos, rounding |-> r] :
        pos \in GridPoints(g), r \in Roundings}
    \cup {[kind |-> "downscale", factor |-> f] : f \in 1 .. MaxFactor}

InitGeo ==
    \E c \in Constructions :
        /\ \E err \in GeoErrs(c.lower, c.upper, c.voxelSize) :
               geo = GeoVolume_t(c.lower, c.upper, c.voxelSize, err)
        /\ gin \in Runs(geo)
        /\ gop = [kind |-> "construct", lower |-> c.lower,
                  upper |-> c.upper, voxelSize |-> c.voxelSize]
        /\ vol = NoGeo
        /\ arr = NoGeo
        /\ op = NoOp
        /\ dvField = NoDist
        /\ pc = NoDist

Geo2Grid ==
    /\ \/ gin.kind = "point" /\ gop.kind = "construct"
       \/ gin.kind = "grid" /\ gop.kind = "grid2geo"
    /\ LET gpos == IF gin.kind = "point" THEN gin.gpos ELSE gop.res
           fpos == geo2gridf(geo, gpos)
           r == gin.rounding
       IN  \E ex \in Errs(fpos.x), ey \in Errs(fpos.y), ez \in Errs(fpos.z) :
              gop' = [kind |-> "geo2grid", arg |-> gpos,
                      res |-> geo2grid(geo, gpos, r.x, r.y, r.z,
                                       Pos(ex, ey, ez))]
    /\ UNCHANGED <<geo, gin, volVars, distVars>>

Grid2Geo ==
    /\ \/ gin.kind = "grid" /\ gop.kind = "construct"
       \/ gin.kind = "point" /\ gop.kind = "geo2grid"
    /\ LET pos == IF gin.kind = "grid" THEN gin.pos ELSE gop.res
       IN  gop' = [kind |-> "grid2geo", arg |-> pos,
                   res |-> grid2geo(geo, pos)]
    /\ UNCHANGED <<geo, gin, volVars, distVars>>

Downscale ==
    /\ gin.kind = "downscale" /\ gop.kind = "construct"
    /\ \E err \in downscaleErrs(geo, gin.factor) :
          geo' = downscale(geo, gin.factor, err)
    /\ gop' = [kind |-> "downscale", factor |-> gin.factor, from |-> geo]
    /\ UNCHANGED <<gin, volVars, distVars>>

NextGeo == Geo2Grid \/ Grid2Geo \/ Downscale

SpecGeo == InitGeo /\ [][NextGeo]_vars

(***************************************************************************)
(* ScalarField_t::getQuads.  A field is a GeoVolume (geo) over an octree   *)
(* container (vol); the result is the list of points the code pushes, four *)
(* per quad, voxels visited with i outermost and k innermost.              *)
(***************************************************************************)
TO_MIN == "TO_MIN"

TO_MAX == "TO_MAX"

Orientations == {TO_MIN, TO_MAX}

\* the values of a scalar field
FieldValues == {0, 1, 2}

\* the test with the neighbour reading < and > for <= and >=
CrossingStrict(c, i, j, k, ni, nj, nk, threshold, orientation) ==
    \/ /\ VolumeGet(c, i, j, k) > threshold
       /\ VolumeGet(c, ni, nj, nk) < threshold
       /\ orientation = TO_MIN
    \/ /\ VolumeGet(c, i, j, k) < threshold
       /\ VolumeGet(c, ni, nj, nk) > threshold
       /\ orientation = TO_MAX

\* the test of one face: voxel (i,j,k) against its neighbour (ni,nj,nk)
Crossing(c, i, j, k, ni, nj, nk, threshold, orientation) ==
    \/ /\ VolumeGet(c, i, j, k) > threshold
       /\ VolumeGet(c, ni, nj, nk) <= threshold
       /\ orientation = TO_MIN
    \/ /\ VolumeGet(c, i, j, k) < threshold
       /\ VolumeGet(c, ni, nj, nk) >= threshold
       /\ orientation = TO_MAX

\* grid2geo( FPosition_s( i + dx * 0.5, j + dy * 0.5, k + dz * 0.5 ) )
Corner(g, i, j, k, dx, dy, dz) ==
    grid2geof(g, FPos(FAdd(FInt(i), Exact(Rat(dx, 2))),
                      FAdd(FInt(j), Exact(Rat(dy, 2))),
                      FAdd(FInt(k), Exact(Rat(dz, 2)))))

QuadLeft(g, i, j, k) ==
    <<Corner(g, i, j, k, -1, -1, -1), Corner(g, i, j, k, -1, -1, 1),
      Corner(g, i, j, k, -1, 1, 1), Corner(g, i, j, k, -1, 1, -1)>>

QuadRight(g, i, j, k) ==
    <<Corner(g, i, j, k, 1, 1, -1), Corner(g, i, j, k, 1, 1, 1),
      Corner(g, i, j, k, 1, -1, 1), Corner(g, i, j, k, 1, -1, -1)>>

QuadBottom(g, i, j, k) ==
    <<Corner(g, i, j, k, -1, -1, -1), Corner(g, i, j, k, 1, -1, -1),
      Corner(g, i, j, k, 1, -1, 1), Corner(g, i, j, k, -1, -1, 1)>>

QuadTop(g, i, j, k) ==
    <<Corner(g, i, j, k, -1, 1, 1), Corner(g, i, j, k, 1, 1, 1),
      Corner(g, i, j, k, 1, 1, -1), Corner(g, i, j, k, -1, 1, -1)>>

QuadBack(g, i, j, k) ==
    <<Corner(g, i, j, k, -1, -1, -1), Corner(g, i, j, k, -1, 1, -1),
      Corner(g, i, j, k, 1, 1, -1), Corner(g, i, j, k, 1, -1, -1)>>

QuadFront(g, i, j, k) ==
    <<Corner(g, i, j, k, 1, -1, 1), Corner(g, i, j, k, 1, 1, 1),
      Corner(g, i, j, k, -1, 1, 1), Corner(g, i, j, k, -1, -1, 1)>>

\* the body of the loop for voxel (i,j,k): the points it pushes
VoxelQuads(g, c, i, j, k, threshold, orientation) ==
    (IF Crossing(c, i, j, k, i - 1, j, k, threshold, orientation)
     THEN QuadLeft(g, i, j, k) ELSE <<>>)
    \o (IF Crossing(c, i, j, k, i + 1, j, k, threshold, orientation)
        THEN QuadRight(g, i, j, k) ELSE <<>>)
    \o (IF Crossing(c, i, j, k, i, j - 1, k, threshold, orientation)
        THEN QuadBottom(g, i, j, k) ELSE <<>>)
    \o (IF Crossing(c, i, j, k, i, j + 1, k, threshold, orientation)
        THEN QuadTop(g, i, j, k) ELSE <<>>)
    \o (IF Crossing(c, i, j, k, i, j, k - 1, threshold, orientation)
        THEN QuadBack(g, i, j, k) ELSE <<>>)
    \o (IF Crossing(c, i, j, k, i, j, k + 1, threshold, orientation)
        THEN QuadFront(g, i, j, k) ELSE <<>>)

\* the loops from the n-th voxel on, n counting k fastest and i slowest
RECURSIVE QuadsFrom(_, _, _, _, _)
QuadsFrom(g, c, n, threshold, orientation) ==
    IF n >= c.sizeX * c.sizeY * c.sizeZ THEN <<>>
    ELSE VoxelQuads(g, c, n \div (c.sizeY * c.sizeZ),
                    (n \div c.sizeZ) % c.sizeY, n % c.sizeZ,
                    threshold, orientation)
         \o QuadsFrom(g, c, n + 1, threshold, orientation)

getQuads(g, c, threshold, orientation) ==
    QuadsFrom(g, c, 0, threshold, orientation)

(***************************************************************************)
(* geometry::Mesh and the two mesh builders of ScalarField_t.              *)
(* Vertex indices are zero-based as in the source: the vertex with index n *)
(* is vertices[n + 1] of the sequence.                                     *)
(***************************************************************************)
\* the number of triangles of the vertex stream handed to isosurfaceAsMesh
MaxTriangles == 2

\* an empty mesh
Mesh == [vertices |-> <<>>, faces |-> <<>>]

\* faces.emplace_back(a, b, c)
addFace(m, a, b, c) ==
    [m EXCEPT !.faces = Append(@, [a |-> a, b |-> b, c |-> c])]

\* one pass of the inner loop: the index of pVertex from vidMap, or a new
\* vertex appended to ret.vertices and entered into vidMap
resolveVertex(st, pVertex) ==
    IF pVertex \notin DOMAIN st.vidMap
    THEN [vidMap |-> [q \in DOMAIN st.vidMap \cup {pVertex} |->
                         IF q = pVertex THEN Len(st.ret.vertices)
                         ELSE st.vidMap[q]],
          ret |-> [st.ret EXCEPT !.vertices = Append(@, pVertex)],
          indices |-> Append(st.indices, Len(st.ret.vertices))]
    ELSE [st EXCEPT !.indices = Append(@, st.vidMap[pVertex])]

degenerateIndicesFirstPair(indices) == indices[1] = indices[2]

\* the test that skips a face
degenerateIndices(indices) ==
    \/ indices[1] = indices[2]
    \/ indices[1] = indices[3]
    \/ indices[2] = indices[3]

\* one pass of the outer loop over triangle 'face' of the stream
reconstructFace(st, vertices, face) ==
    LET s0 == [st EXCEPT !.indices = <<>>]
        s1 == resolveVertex(s0, vertices[face * 3 + 1])
        s2 == resolveVertex(s1, vertices[face * 3 + 2])
        s3 == resolveVertex(s2, vertices[face * 3 + 3])
    IN  IF degenerateIndices(s3.indices) THEN s3
        ELSE [s3 EXCEPT !.ret = addFace(s3.ret, s3.indices[1],
                                        s3.indices[2], s3.indices[3])]

RECURSIVE reconstructFaces(_, _, _)
reconstructFaces(st, vertices, face) ==
    IF face < Len(vertices) \div 3
    THEN reconstructFaces(reconstructFace(st, vertices, face), vertices,
                          face + 1)
    ELSE st

\* the mesh built from the vertex stream of the isosurface extraction
isosurfaceAsMesh(vertices) ==
    reconstructFaces([vidMap |-> <<>>, ret |-> Mesh, indices |-> <<>>],
                     vertices, 0).ret

\* math::Point3 from the double coordinates of an emitted vertex
Point3(x, y, z) == [x |-> x, y |-> y, z |-> z]

addQuadFacesFan(ret, quad) ==
    addFace(addFace(ret, quad * 4, quad * 4 + 1, quad * 4 + 2),
            quad * 4, quad * 4 + 2, quad * 4 + 3)

\* the two faces of quad number 'quad'
addQuadFaces(ret, quad) ==
    addFace(addFace(ret, quad * 4, quad * 4 + 1, quad * 4 + 3),
            quad * 4 + 1, quad * 4 + 2, quad * 4 + 3)

RECURSIVE quadFaces(_, _, _)
quadFaces(ret, quad, size) ==
    IF quad < size \div 4 THEN quadFaces(addQuadFaces(ret, quad), quad + 1, size)
    ELSE ret

\* the mesh built from the vertex stream of getQuads
getQuadsAsMesh(g, c, threshold, orientation) ==
    LET vertices == getQuads(g, c, threshold, orientation)
        pushed == [Mesh EXCEPT !.vertices =
                      [n \in 1 .. Len(vertices) |->
                          Point3(vertices[n].x, vertices[n].y, vertices[n].z)]]
    IN  quadFaces(pushed, 0, Len(vertices))

(***************************************************************************)
(* SpecQuads: a scalar field is constructed with whole voxels between its  *)
(* corners, receives in-range sets and then one getQuads call, whose       *)
(* threshold and orientation gin holds from the start; gop records the     *)
(* getQuads call and its result.                                           *)
(***************************************************************************)
\* the thresholds getQuads is called with: a value with field values
\* below, at and above it
Thresholds == {1}

InitQuads ==
    \E lower \in Lowers, voxelSize \in VoxelSizes,
       sx \in 1 .. MaxDim, sy \in 1 .. MaxDim, sz \in 1 .. MaxDim,
       iv \in FieldValues, threshold \in Thresholds,
       orientation \in Orientations :
        LET upper == FPos(FAdd(lower.x, FMul(FInt(sx), voxelSize)),
                          FAdd(lower.y, FMul(FInt(sy), voxelSize)),
                          FAdd(lower.z, FMul(FInt(sz), voxelSize)))
        IN  /\ sx * sy * sz <= MaxFieldVoxels
            /\ \E err \in GeoErrs(lower, upper, voxelSize) :
                   geo = GeoVolume_t(lower, upper, voxelSize, err)
            /\ vol = Volume_t(geo.sizeX, geo.sizeY, geo.sizeZ, iv)
            /\ op = NoOp
            /\ gin = [kind |-> "quads", threshold |-> threshold,
                      orientation |-> orientation]
            /\ gop = NoOp
            /\ arr = NoGeo
            /\ dvField = NoDist
            /\ pc = NoDist

\* the voxels of container c that differ from its initValue
Changed(c) ==
    {p \in {Pos(i, j, k) : i \in 0 .. (c.sizeX - 1), j \in 0 .. (c.sizeY - 1),
                           k \in 0 .. (c.sizeZ - 1)} :
        VolumeGet(c, p.x, p.y, p.z) # c.initValue}

FieldSet ==
    /\ gop.kind = "none"
    /\ \E i \in 0 .. (vol.sizeX - 1), j \in 0 .. (vol.sizeY - 1),
          k \in 0 .. (vol.sizeZ - 1), value \in FieldValues :
           LET c == VolumeSet(vol, i, j, k, value)
           IN  /\ Cardinality(Changed(c)) <= MaxChanged
               /\ vol' = c
    /\ UNCHANGED <<arr, op, geo, gin, gop, distVars>>

GetQuads ==
    /\ gop.kind = "none"
    /\ gop' = [kind |-> "getQuads", threshold |-> gin.threshold,
               orientation |-> gin.orientation,
               res |-> getQuads(geo, vol, gin.threshold, gin.orientation)]
    /\ UNCHANGED <<vol, arr, op, geo, gin, distVars>>

NextQuads == FieldSet \/ GetQuads

SpecQuads == InitQuads /\ [][NextQuads]_vars


(***************************************************************************)
(* SpecMesh: one call of a mesh builder.  A run of isosurfaceAsMesh starts *)
(* from the vertex stream the isosurface extraction returned (gin); a run  *)
(* of getQuadsAsMesh starts from a scalar field (geo, vol) in which some   *)
(* voxels have been set.  gop records the call and the mesh it returned.   *)
(***************************************************************************)
\* the number of voxels of the fields getQuadsAsMesh is called on
MaxMeshVoxels == 3

\* the points the streams are made of
MeshPoints == {Pos(0, 0, 0), Pos(1, 0, 0), Pos(0, 1, 0), Pos(0, 0, 1)}

RECURSIVE Streams(_)
Streams(n) ==
    IF n = 0 THEN {<<>>}
    ELSE LET shorter == Streams(n - 1)
         IN  shorter \cup
             {s \o <<a, b, c>> : s \in {t \in shorter : Len(t) = 3 * (n - 1)},
                                 a \in MeshPoints, b \in MeshPoints,
                                 c \in MeshPoints}

\* container c after set( p, value ) for every p of the set 'on'
RECURSIVE SetEach(_, _, _)
SetEach(c, on, value) ==
    IF on = {} THEN c
    ELSE LET p == CHOOSE q \in on : TRUE
         IN  SetEach(VolumeSet(c, p.x, p.y, p.z, value), on \ {p}, value)

InitMeshStream ==
    /\ vol = NoOp
    /\ geo = NoGeo
    /\ gin \in {[kind |-> "stream", vertices |-> s] : s \in Streams(MaxTriangles)}

InitMeshField ==
    \E lower \in Lowers, voxelSize \in VoxelSizes,
       sx \in 1 .. MaxDim, sy \in 1 .. MaxDim, sz \in 1 .. MaxDim,
       iv \in FieldValues, value \in FieldValues, threshold \in Thresholds,
       orientation \in Orientations :
        LET upper == FPos(FAdd(lower.x, FMul(FInt(sx), voxelSize)),
                          FAdd(lower.y, FMul(FInt(sy), voxelSize)),
                          FAdd(lower.z, FMul(FInt(sz), voxelSize)))
            voxels == {Pos(i, j, k) : i \in 0 .. (sx - 1), j \in 0 .. (sy - 1),
                                      k \in 0 .. (sz - 1)}
        IN  /\ sx * sy * sz <= MaxMeshVoxels
            /\ \E err \in GeoErrs(lower, upper, voxelSize) :
                   geo = GeoVolume_t(lower, upper, voxelSize, err)
            /\ \E on \in SUBSET voxels :
                   /\ Cardinality(on) <= MaxChanged
                   /\ vol = SetEach(Volume_t(sx, sy, sz, iv), on, value)
            /\ gin = [kind |-> "quads", threshold |-> threshold,
                      orientation |-> orientation]

InitMesh ==
    /\ InitMeshStream \/ InitMeshField
    /\ arr = NoOp
    /\ op = NoOp
    /\ gop = NoOp
    /\ dvField = NoDist
    /\ pc = NoDist

IsosurfaceAsMesh ==
    /\ gin.kind = "stream" /\ gop.kind = "none"
    /\ gop' = [kind |-> "mesh", ret |-> isosurfaceAsMesh(gin.vertices)]
    /\ UNCHANGED <<volVars, geo, gin, distVars>>

GetQuadsAsMesh ==
    /\ gin.kind = "quads" /\ gop.kind = "none"
    /\ gop' = [kind |-> "getQuadsAsMesh", threshold |-> gin.threshold,
               orientation |-> gin.orientation,
               ret |-> getQuadsAsMesh(geo, vol, gin.threshold,
                                      gin.orientation)]
    /\ UNCHANGED <<volVars, geo, gin, distVars>>

NextMesh == IsosurfaceAsMesh \/ GetQuadsAsMesh

SpecMesh == InitMesh /\ [][NextMesh]_vars

(***************************************************************************)
(* class DistanceMap_t, constructed from a bitfield (Danielsson's 4SED).   *)
(* dvField is an octree of distance vectors.  A Value_t v of the map, a    *)
(* distance or initValue, is held as v * |v|, its square with its sign:    *)
(* that is increasing in v, so dist < initValue is the same test on the    *)
(* two values in that form, whatever their signs.  The components of a     *)
(* distance vector are floats, and so is every sum and every square of     *)
(* them: each is rounded to 24 bits, which leaves whole numbers below 2^24 *)
(* as they are.                                                            *)
(***************************************************************************)
ASC == "ASC"

DESC == "DESC"

DistVector_s(distX, distY, distZ) ==
    [distX |-> distX, distY |-> distY, distZ |-> distZ]

\* DistVector_s( const float infty )
DistVectorInfty(infty) == DistVector_s(infty, infty, infty)

\* operator + that leaves out the step
DistVectorKeep(op1, op2) == op1

\* DistVector_s::operator +: the three sums are floats
DistVectorAdd(op1, op2) ==
    DistVector_s(FloatOf(FAdd(op1.distX, op2.distX)),
                 FloatOf(FAdd(op1.distY, op2.distY)),
                 FloatOf(FAdd(op1.distZ, op2.distZ)))

\* math::sqr of a float, a float
sqr(f) == FloatOf(FMul(f, f))

\* sqr( distX ) + sqr( distY ) + sqr( distZ ), a float after each sum
SqrNorm(dv) ==
    FloatOf(FAdd(FloatOf(FAdd(sqr(dv.distX), sqr(dv.distY))),
                 sqr(dv.distZ)))

\* min with < for <=: op2 wins a tie
minStrict(op1, op2) ==
    IF RLess(SqrNorm(op1).q, SqrNorm(op2).q) THEN op1 ELSE op2

\* DistanceMap_t::min
min(op1, op2) ==
    IF RLeq(SqrNorm(op1).q, SqrNorm(op2).q) THEN op1 ELSE op2

\* one statement dvField.set( t, min( dvField.get( t ), dvField.get( s ) + step ) )
Propagation(t, s, step) == [t |-> t, s |-> s, step |-> step]

Propagate(field, u) ==
    VolumeSet(field, u.t.x, u.t.y, u.t.z,
              min(VolumeGet(field, u.t.x, u.t.y, u.t.z),
                  DistVectorAdd(VolumeGet(field, u.s.x, u.s.y, u.s.z),
                                u.step)))

RECURSIVE Flatten(_)
Flatten(seqs) ==
    IF seqs = <<>> THEN <<>> ELSE Head(seqs) \o Flatten(Tail(seqs))

\* the statements scanXLine executes, in order
scanXLine(sizeX, j, k, scandir) ==
    LET stepY == DistVector_s(FInt(0), FInt(1), FInt(0))
        stepX == DistVector_s(FInt(1), FInt(0), FInt(0))
        from == IF scandir = ASC THEN j - 1 ELSE j + 1
    IN  [n \in 1 .. sizeX |->
            Propagation(Pos(n - 1, j, k), Pos(n - 1, from, k), stepY)]
        \o [n \in 1 .. (sizeX - 1) |->
               Propagation(Pos(n, j, k), Pos(n - 1, j, k), stepX)]
        \o [n \in 1 .. (sizeX - 1) |->
               Propagation(Pos(sizeX - 1 - n, j, k), Pos(sizeX - n, j, k),
                           stepX)]

\* the statements scanXYPlane executes, in order
scanXYPlane(sizeX, sizeY, k, scandir) ==
    LET stepZ == DistVector_s(FInt(0), FInt(0), FInt(1))
        from == IF scandir = ASC THEN k - 1 ELSE k + 1
    IN  [n \in 1 .. (sizeX * sizeY) |->
            Propagation(Pos((n - 1) \div sizeY, (n - 1) % sizeY, k),
                        Pos((n - 1) \div sizeY, (n - 1) % sizeY, from),
                        stepZ)]
        \o Flatten([n \in 1 .. (sizeY - 1) |-> scanXLine(sizeX, n, k, ASC)])
        \o Flatten([n \in 1 .. (sizeY - 1) |->
                       scanXLine(sizeX, sizeY - 1 - n, k, DESC)])

\* the statements of the two Z passes of the constructor, in order
Scanning(sizeX, sizeY, sizeZ) ==
    Flatten([n \in 1 .. (sizeZ - 1) |-> scanXYPlane(sizeX, sizeY, n, ASC)])
    \o Flatten([n \in 1 .. (sizeZ - 1) |->
                   scanXYPlane(sizeX, sizeY, sizeZ - 1 - n, DESC)])

\* the loop that sets the zero vector at the feature voxels, from voxel n on
RECURSIVE MarkFrom(_, _, _)
MarkFrom(field, features, n) ==
    IF n >= field.sizeX * field.sizeY * field.sizeZ THEN field
    ELSE LET i == n \div (field.sizeY * field.sizeZ)
             j == (n \div field.sizeZ) % field.sizeY
             k == n % field.sizeZ
         IN  MarkFrom(IF Pos(i, j, k) \in features
                      THEN VolumeSet(field, i, j, k,
                                     DistVector_s(FInt(0), FInt(0), FInt(0)))
                      ELSE field,
                      features, n + 1)

\* v * |v|, the form a Value_t v of the map is held in
SignedSquare(v) == FMul(v, FAbs(v))

\* voxelSize * sqrt( sqr( distX ) + sqr( distY ) + sqr( distZ ) ), in that
\* form
DistSquared(voxelSize, dv) == FMul(SignedSquare(voxelSize), SqrNorm(dv))

\* the loop that computes the distance map from the vector field, from
\* voxel n on; dist < initValue is tested on the two values in that form
RECURSIVE ComputeFrom(_, _, _, _)
ComputeFrom(map, field, voxelSize, n) ==
    IF n >= field.sizeX * field.sizeY * field.sizeZ THEN map
    ELSE LET i == n \div (field.sizeY * field.sizeZ)
             j == (n \div field.sizeZ) % field.sizeY
             k == n % field.sizeZ
             dist == DistSquared(voxelSize, VolumeGet(field, i, j, k))
         IN  ComputeFrom(IF RLess(dist.q, map.initValue.q)
                         THEN VolumeSet(map, i, j, k, dist)
                         ELSE map,
                         field, voxelSize, n + 1)

(***************************************************************************)
(* SpecDist: DistanceMap_t( bitfield, initValue ) step by step.  gin holds *)
(* the feature voxels of the bitfield and initValue; vol is the container  *)
(* of the map and geo its georeferencing, those of the bitfield; pc is the *)
(* position in the constructor and the propagations still to execute.      *)
(***************************************************************************)
\* the initValue a distance map is constructed with
InitValues == {FInt(2), FInt(3)}

\* bitfields with up to MaxFeatures feature voxels
Bitfields(sizeX, sizeY, sizeZ) ==
    {f \in SUBSET {Pos(i, j, k) : i \in 0 .. (sizeX - 1),
                                  j \in 0 .. (sizeY - 1),
                                  k \in 0 .. (sizeZ - 1)} :
        Cardinality(f) <= MaxFeatures}

InitDist ==
    \E lower \in Lowers, voxelSize \in VoxelSizes,
       sx \in 1 .. MaxDim, sy \in 1 .. MaxDim, sz \in 1 .. MaxDim,
       initValue \in InitValues :
        LET upper == FPos(FAdd(lower.x, FMul(FInt(sx), voxelSize)),
                          FAdd(lower.y, FMul(FInt(sy), voxelSize)),
                          FAdd(lower.z, FMul(FInt(sz), voxelSize)))
        IN  /\ sx * sy * sz <= MaxVoxels
            /\ \E err \in GeoErrs(lower, upper, voxelSize) :
                   geo = GeoVolume_t(lower, upper, voxelSize, err)
            /\ \E features \in Bitfields(geo.sizeX, geo.sizeY, geo.sizeZ) :
                  gin = [kind |-> "bitfield", features |-> features,
                         initValue |-> initValue]
            /\ vol = Volume_t(geo.sizeX, geo.sizeY, geo.sizeZ, SignedSquare(initValue))
            /\ dvField = Volume_t(geo.sizeX, geo.sizeY, geo.sizeZ,
                                  DistVectorInfty(
                                      FloatOf(FDiv(initValue, voxelSize))))
            /\ pc = [kind |-> "features"]
            /\ arr = NoGeo
            /\ op = NoOp
            /\ gop = NoOp

\* the loop over the bitfield
MarkFeatures ==
    /\ pc.kind = "features"
    /\ dvField' = MarkFrom(dvField, gin.features, 0)
    /\ pc' = [kind |-> "scan",
              todo |-> Scanning(geo.sizeX, geo.sizeY, geo.sizeZ)]
    /\ UNCHANGED <<volVars, geoVars>>

\* one propagation of scanXYPlane or scanXLine
ScanStep ==
    /\ pc.kind = "scan" /\ pc.todo # <<>>
    /\ dvField' = Propagate(dvField, Head(pc.todo))
    /\ pc' = [pc EXCEPT !.todo = Tail(@)]
    /\ UNCHANGED <<volVars, geoVars>>

\* the loop that computes the distance map
ComputeDistances ==
    /\ pc.kind = "scan" /\ pc.todo = <<>>
    /\ vol' = ComputeFrom(vol, dvField, geo.voxelSize, 0)
    /\ pc' = [kind |-> "done"]
    /\ UNCHANGED <<arr, op, geoVars, dvField>>

NextDist == MarkFeatures \/ ScanStep \/ ComputeDistances

SpecDist == InitDist /\ [][NextDist]_vars

(***************************************************************************)
(* Claims about the two containers, checked under SpecVol.                 *)
(***************************************************************************)
\* the coordinates of the root cube of the octree
RootCube(v) == 0 .. (v.rootSize - 1)

\* the aligned cubes of edge 2, 4, ... rootSize inside the root cube: the
\* cubes an octree node with children can own
BlockSizes(v) == {s \in 2 .. v.rootSize : \E e \in 1 .. v.rootSize : s = Exp2(e)}

Blocks(v) ==
    {b \in [s : BlockSizes(v), x : RootCube(v), y : RootCube(v),
            z : RootCube(v)] :
        b.x % b.s = 0 /\ b.y % b.s = 0 /\ b.z % b.s = 0}

\* every voxel of block b holds one value in the dense array a (cells of the
\* root cube outside the grid hold initValue)
BlockUniform(a, b) ==
    \A dx \in 0 .. (b.s - 1), dy \in 0 .. (b.s - 1), dz \in 0 .. (b.s - 1) :
        ArrayGet(a, b.x + dx, b.y + dy, b.z + dz) = ArrayGet(a, b.x, b.y, b.z)

\* C1: after any sequence of set calls applied to both containers, get
\* returns the same value from the octree and from the dense array at every
\* in-range coordinate and at every out-of-range coordinate, where both
\* return initValue.
C1_BackendsAgree ==
    /\ \A i \in CoordsX(vol), j \in CoordsY(vol), k \in CoordsZ(vol) :
          /\ VolumeGet(vol, i, j, k) = ArrayGet(arr, i, j, k)
          /\ Outside(vol, i, j, k) =>
                VolumeGet(vol, i, j, k) = vol.initValue
    /\ op.kind = "get" => op.value = op.avalue

\* an in-range get that returns a value other than initValue from a split tree
C1_Witness ==
    /\ op.kind = "get" /\ ~ op.out
    /\ op.value # vol.initValue
    /\ vol.root.type = "GRAY"

\* C2: a get outside the grid returns initValue whatever was set before, and
\* a set outside the grid changes neither container: stored values, node
\* structure and node count stay as they were.
C2_OutOfRange ==
    /\ \A i \in CoordsX(vol), j \in CoordsY(vol), k \in CoordsZ(vol) :
          Outside(vol, i, j, k) =>
             /\ VolumeGet(vol, i, j, k) = vol.initValue
             /\ ArrayGet(arr, i, j, k) = arr.initValue
             /\ \A value \in Values :
                   /\ VolumeSet(vol, i, j, k, value) = vol
                   /\ ArraySet(arr, i, j, k, value) = arr
    /\ (op.kind = "set" /\ op.out) => nodeCount(vol) = op.before
    /\ (op.kind = "get" /\ op.out) =>
          (op.value = vol.initValue /\ op.avalue = arr.initValue)

\* an out-of-range set made on a split tree
C2_Witness ==
    /\ op.kind = "set" /\ op.out
    /\ op.value # vol.initValue
    /\ vol.root.type = "GRAY"

\* no Gray node of the subtree has 8 Solid children with one value
RECURSIVE NoUniformGray(_)
NoUniformGray(node) ==
    node.type = "GRAY" =>
       /\ ~ (\A i \in 0 .. 7 :
                /\ node.subnodes[i].type = "SOLID"
                /\ node.subnodes[i].value = node.subnodes[0].value)
       /\ \A i \in 0 .. 7 : NoUniformGray(node.subnodes[i])

\* C3: in every reachable state no Gray node of the octree has 8 children
\* that are all Solid with one identical value.
C3_CollapseInvariant == NoUniformGray(vol.root)

\* a set that collapsed two levels of the tree at once
C3_Witness ==
    /\ op.kind = "set" /\ ~ op.out
    /\ op.before - nodeCount(vol) >= 16

\* C4: a set that makes the voxels of some node's cube differ, where they
\* were uniform, increases nodeCount(); a set that makes them all equal,
\* where they differed, decreases nodeCount().
C4_SplitCollapseCount ==
    [][arr'.data # arr.data =>
         \A b \in Blocks(vol) :
            /\ (BlockUniform(arr, b) /\ ~ BlockUniform(arr', b)) =>
                  nodeCount(vol') > nodeCount(vol)
            /\ (~ BlockUniform(arr, b) /\ BlockUniform(arr', b)) =>
                  nodeCount(vol') < nodeCount(vol)]_vars

\* a set that collapsed a node to a value other than initValue, after the
\* tree had been split
C4_Witness ==
    /\ op.kind = "set" /\ ~ op.out
    /\ op.value # vol.initValue
    /\ nodeCount(vol) < op.before


(***************************************************************************)
(* Claims about the georeferencing, checked under SpecGeo.                 *)
(***************************************************************************)
Axes == {"x", "y", "z"}

Size(g, a) == CASE a = "x" -> g.sizeX [] a = "y" -> g.sizeY [] a = "z" -> g.sizeZ

\* lower <= p < upper on every axis
InsideExtents(g, p) ==
    \A a \in Axes : RLeq(g.lower[a].q, p[a].q) /\ RLess(p[a].q, g.upper[a].q)

\* the run converted a world point inside the extents with nearest rounding
\* and converted the index back
NearestRoundTripDone ==
    /\ gin.kind = "point" /\ gop.kind = "grid2geo"
    /\ gin.rounding = Pos(0, 0, 0)
    /\ InsideExtents(geo, gin.gpos)

\* C5: for a world point p inside the extents (lower <= p < upper on each
\* axis), geo2grid(p) with nearest rounding is an in-range grid index and
\* grid2geo(geo2grid(p)) differs from p by at most voxelSize/2 on every axis.
C5_NearestInRange ==
    NearestRoundTripDone =>
        \A a \in Axes :
            /\ gop.arg[a] \in 0 .. (Size(geo, a) - 1)
            /\ RLeq(RAbs(RSub(gop.res[a].q, gin.gpos[a].q)),
                    RDiv(geo.voxelSize.q, RInt(2)))

\* the run converted a grid position to world and back
GridRoundTripDone == gin.kind = "grid" /\ gop.kind = "geo2grid"

\* C6 as stated: geo2grid(grid2geo(g), rounding) = g for every grid position
\* g and every per-axis rounding mode.
C6_ExactInverseAllModes == GridRoundTripDone => gop.res = gin.pos

\* C6 as amended: with nearest rounding on an axis the round trip returns g
\* on that axis; with floor or ceil it returns g when the conversion is
\* exact, and otherwise g or its neighbour below (floor) or above (ceil).
C6_InverseNearest ==
    GridRoundTripDone =>
        LET fpos == geo2gridf(geo, gop.arg)
        IN  \A a \in Axes :
               LET g == gin.pos[a]
                   r == gin.rounding[a]
                   res == gop.res[a]
               IN  /\ r = 0 => res = g
                   /\ ~ fpos[a].x => res = g
                   /\ r = -1 => res \in {g - 1, g}
                   /\ r = 1 => res \in {g, g + 1}

\* a nearest-rounded round trip through an inexact conversion returned g
C6_Witness ==
    /\ GridRoundTripDone
    /\ gin.rounding = Pos(0, 0, 0)
    /\ geo2gridf(geo, gop.arg).x.x
    /\ gin.pos.x \in 1 .. (geo.sizeX - 1)
    /\ gop.res = gin.pos

\* the quotient ( upper - lower ) / voxelSize of the constructor on axis a
Quotient(a) ==
    FDiv(FSub(gop.upper[a], gop.lower[a]), gop.voxelSize)

CeilDiv(n, f) == (n + f - 1) \div f

\* C8: the field downscale(f) leaves has per-axis voxel count ceil(N / f),
\* N the count before, and voxel size f times the voxel size before.
C8_DownscaleSize ==
    gop.kind = "downscale" =>
        /\ \A a \in Axes : Size(geo, a) = CeilDiv(Size(gop.from, a), gop.factor)
        /\ geo.voxelSize.q = RMul(gop.from.voxelSize.q, RInt(gop.factor))


\* the quotient ( upper - ll ) / ( voxelSize * factor ) of downscale on
\* axis a
DownscaleQuotient(a) ==
    FDiv(FSub(gop.from.upper[a], downscaleLower(gop.from, gop.factor)[a]),
         FMul(gop.from.voxelSize, FInt(gop.factor)))

\* C8 as amended: the count is ceil((N + (f - 1) / 2) / f), the lower corner
\* having moved down by (f - 1) / 2 voxels, and the voxel size is f times
\* the voxel size before.  The count is stated for arithmetic that does not
\* round; where the quotient is a rounded whole number the count is that
\* ceiling or one more.
C8_DownscaleSizeShifted ==
    gop.kind = "downscale" =>
        /\ \A a \in Axes :
              IF DownscaleQuotient(a).x /\ RIsInt(DownscaleQuotient(a).q)
              THEN Size(geo, a) - CeilDiv(2 * Size(gop.from, a)
                                         + gop.factor - 1, 2 * gop.factor)
                       \in {0, 1}
              ELSE Size(geo, a) = CeilDiv(2 * Size(gop.from, a)
                                         + gop.factor - 1, 2 * gop.factor)
        /\ geo.voxelSize.q = RMul(gop.from.voxelSize.q, RInt(gop.factor))

\* a downscale by 2 of two voxels along x left two voxels, and one of one
\* voxel along y left one
C8_Witness ==
    /\ gop.kind = "downscale" /\ gop.factor = 2
    /\ gop.from.sizeX = 2 /\ geo.sizeX = 2
    /\ gop.from.sizeY = 1 /\ geo.sizeY = 1


(***************************************************************************)
(* Claims about getQuads, checked under SpecQuads.                         *)
(***************************************************************************)
Voxels(c) ==
    {Pos(i, j, k) : i \in 0 .. (c.sizeX - 1), j \in 0 .. (c.sizeY - 1),
                    k \in 0 .. (c.sizeZ - 1)}

\* the six face directions
Faces ==
    {Pos(-1, 0, 0), Pos(1, 0, 0), Pos(0, -1, 0), Pos(0, 1, 0),
     Pos(0, 0, -1), Pos(0, 0, 1)}

\* 'on' is above the threshold, 'off' is at or below it
IsOn(value, threshold) == value > threshold

OnVoxels(c, threshold) ==
    {p \in Voxels(c) : IsOn(VolumeGet(c, p.x, p.y, p.z), threshold)}

\* exactly one in-range voxel is 'on', the others and initValue are 'off'
SingleOn(c, threshold) ==
    /\ Cardinality(OnVoxels(c, threshold)) = 1
    /\ ~ IsOn(c.initValue, threshold)

TheOn(c, threshold) == CHOOSE p \in OnVoxels(c, threshold) : TRUE

\* the mirrored field: exactly one in-range voxel is below the threshold,
\* the others and initValue are at or above it
BelowVoxels(c, threshold) ==
    {p \in Voxels(c) : VolumeGet(c, p.x, p.y, p.z) < threshold}

SingleBelow(c, threshold) ==
    /\ Cardinality(BelowVoxels(c, threshold)) = 1
    /\ ~ (c.initValue < threshold)

TheBelow(c, threshold) == CHOOSE p \in BelowVoxels(c, threshold) : TRUE

\* every voxel but p and initValue are strictly below the threshold
RestBelow(c, p, threshold) ==
    /\ c.initValue < threshold
    /\ \A r \in Voxels(c) \ {p} : VolumeGet(c, r.x, r.y, r.z) < threshold

\* the faces of voxel p that have an in-range voxel on their other side
InnerFaces(c, p) ==
    {f \in Faces : Pos(p.x + f.x, p.y + f.y, p.z + f.z) \in Voxels(c)}

\* the q-th quad of a point list
Quad(res, q) == {res[4 * (q - 1) + n] : n \in 1 .. 4}

\* the world corners of voxel p on its face f
FaceCorners(g, p, f) ==
    {FPos(FAdd(g.lower.x, FMul(FInt(p.x + dx), g.voxelSize)),
          FAdd(g.lower.y, FMul(FInt(p.y + dy), g.voxelSize)),
          FAdd(g.lower.z, FMul(FInt(p.z + dz), g.voxelSize))) :
        dx \in (IF f.x = 0 THEN {0, 1} ELSE {(f.x + 1) \div 2}),
        dy \in (IF f.y = 0 THEN {0, 1} ELSE {(f.y + 1) \div 2}),
        dz \in (IF f.z = 0 THEN {0, 1} ELSE {(f.z + 1) \div 2})}

\* the exact values of the coordinates of a set of points
Nominal(points) == {<<p.x.q, p.y.q, p.z.q>> : p \in points}

\* the (voxel, face) pairs that pass the crossing test of the orientation:
\* TO_MIN from a value above the threshold to one at or below it, TO_MAX
\* from a value below the threshold to one at or above it
CrossingPairs(c, threshold, orientation) ==
    {pf \in Voxels(c) \X Faces :
        LET here == VolumeGet(c, pf[1].x, pf[1].y, pf[1].z)
            there == VolumeGet(c, pf[1].x + pf[2].x, pf[1].y + pf[2].y,
                               pf[1].z + pf[2].z)
        IN  IF orientation = TO_MIN
            THEN here > threshold /\ ~ (there > threshold)
            ELSE here < threshold /\ ~ (there < threshold)}

\* the quads of a point list are the faces fs of voxel p, one quad each,
\* of 4 distinct corners
QuadsOnFaces(res, g, p, fs) ==
    /\ Len(res) = 4 * Cardinality(fs)
    /\ \A q \in 1 .. Cardinality(fs) : Cardinality(Quad(res, q)) = 4
    /\ \A f \in fs : \E q \in 1 .. Cardinality(fs) :
          Nominal(Quad(res, q)) = Nominal(FaceCorners(g, p, f))

\* the number of quads is the number of (voxel, face-neighbour) pairs that
\* pass the crossing test of the orientation
QuadCount ==
    Len(gop.res) =
        4 * Cardinality(CrossingPairs(vol, gop.threshold, gop.orientation))

\* C9: with exactly one in-range voxel 'on' (above the threshold) and every
\* other voxel and initValue 'off' (at or below it), getQuads returns 24
\* points: 6 quads of 4 distinct corners each, one on each face of that
\* voxel, wherever the voxel is and for either orientation; and in every
\* field the number of quads is the number of (voxel, face-neighbour) pairs
\* that pass the crossing test.
C9_SingleVoxelQuads ==
    gop.kind = "getQuads" =>
        /\ QuadCount
        /\ SingleOn(vol, gop.threshold) =>
              QuadsOnFaces(gop.res, geo, TheOn(vol, gop.threshold), Faces)

\* C9 as amended: with one voxel 'on' and the rest 'off', TO_MIN gives the
\* 6 quads of that voxel's faces wherever the voxel is; TO_MAX gives them
\* on the mirrored field, one voxel below the threshold and the rest and
\* initValue at or above it; on a field with one voxel above the threshold
\* and the rest and initValue strictly below it TO_MAX gives one quad for
\* each in-range face-neighbour of the voxel, on the face between the two;
\* and in every field the number of quads is the number of (voxel,
\* face-neighbour) pairs that pass the crossing test.
C9_SingleVoxelQuadsOriented ==
    gop.kind = "getQuads" =>
        /\ QuadCount
        /\ (gop.orientation = TO_MIN /\ SingleOn(vol, gop.threshold)) =>
              QuadsOnFaces(gop.res, geo, TheOn(vol, gop.threshold), Faces)
        /\ (gop.orientation = TO_MAX /\ SingleBelow(vol, gop.threshold)) =>
              QuadsOnFaces(gop.res, geo, TheBelow(vol, gop.threshold), Faces)
        /\ (/\ gop.orientation = TO_MAX
            /\ SingleOn(vol, gop.threshold)
            /\ RestBelow(vol, TheOn(vol, gop.threshold), gop.threshold)) =>
              QuadsOnFaces(gop.res, geo, TheOn(vol, gop.threshold),
                           InnerFaces(vol, TheOn(vol, gop.threshold)))

\* getQuads ran with TO_MAX on a field whose single 'on' voxel lies on the
\* grid boundary, with a neighbour in range on one side along x and none
\* on the other, the rest of the field below the threshold: fewer than 6
\* quads came out
C9_Witness ==
    /\ gop.kind = "getQuads" /\ gop.orientation = TO_MAX
    /\ SingleOn(vol, gop.threshold)
    /\ RestBelow(vol, TheOn(vol, gop.threshold), gop.threshold)
    /\ vol.sizeX >= 2
    /\ TheOn(vol, gop.threshold).x = 0
    /\ Len(gop.res) \in 4 .. 20


(***************************************************************************)
(* Claims about the distance map, checked under SpecDist.                  *)
(***************************************************************************)
\* voxelSize^2 * (i^2 + j^2 + k^2)
TrueDistSquared(voxelSize, i, j, k) ==
    RMul(RMul(voxelSize.q, voxelSize.q), RInt(i * i + j * j + k * k))

\* C10: for a bitfield of any dimensions whose only feature voxel is the
\* grid origin, the map stores voxelSize * sqrt(i^2 + j^2 + k^2) at every
\* in-range (i,j,k) where that distance is below initValue, and the
\* distance vector there is (i,j,k).
C10_OriginDistances ==
    (pc.kind = "done" /\ gin.features = {Pos(0, 0, 0)}) =>
        \A i \in 0 .. (vol.sizeX - 1), j \in 0 .. (vol.sizeY - 1),
           k \in 0 .. (vol.sizeZ - 1) :
            RLess(TrueDistSquared(geo.voxelSize, i, j, k),
                  RMul(gin.initValue.q, gin.initValue.q)) =>
                /\ VolumeGet(vol, i, j, k).q =
                       TrueDistSquared(geo.voxelSize, i, j, k)
                /\ VolumeGet(dvField, i, j, k) =
                       DistVector_s(FInt(i), FInt(j), FInt(k))


(***************************************************************************)
(* Claims about the mesh builders, checked under SpecMesh.                 *)
(***************************************************************************)
\* the triangles of a vertex stream, in emission order
Triangles(s) ==
    [t \in 1 .. (Len(s) \div 3) |-> <<s[3 * t - 2], s[3 * t - 1], s[3 * t]>>]

PairwiseDistinct(t) == t[1] # t[2] /\ t[1] # t[3] /\ t[2] # t[3]

\* the triangles with three pairwise distinct points, in emission order
ProperTriangles(s) == SelectSeq(Triangles(s), PairwiseDistinct)

\* C11: in the mesh built from any stream of triangle vertices no two
\* vertices have identical coordinates, every face index is below
\* vertices.size(), every face has three pairwise distinct indices, and the
\* faces are exactly the input triangles with three pairwise distinct
\* points, in emission order, each index resolving to the original point;
\* triangles with coincident points are dropped.
C11_MeshDedup ==
    gop.kind = "mesh" =>
        LET m == gop.ret
            proper == ProperTriangles(gin.vertices)
        IN  /\ \A i \in 1 .. Len(m.vertices), j \in 1 .. Len(m.vertices) :
                   i # j => m.vertices[i] # m.vertices[j]
            /\ \A f \in 1 .. Len(m.faces) :
                   /\ {m.faces[f].a, m.faces[f].b, m.faces[f].c}
                          \subseteq 0 .. (Len(m.vertices) - 1)
                   /\ PairwiseDistinct(<<m.faces[f].a, m.faces[f].b,
                                         m.faces[f].c>>)
            /\ Len(m.faces) = Len(proper)
            /\ \A f \in 1 .. Len(m.faces) :
                   <<m.vertices[m.faces[f].a + 1], m.vertices[m.faces[f].b + 1],
                     m.vertices[m.faces[f].c + 1]>> = proper[f]

\* a degenerate triangle that brought a new vertex was dropped, and a later
\* triangle with three distinct points became the only face
C11_Witness ==
    /\ gop.kind = "mesh"
    /\ Len(gin.vertices) = 6
    /\ ~ PairwiseDistinct(Triangles(gin.vertices)[1])
    /\ Len(gop.ret.faces) = 1
    /\ Len(gop.ret.vertices) = 4

(***************************************************************************)
(* Claim about getQuadsAsMesh, checked under SpecMesh.                     *)
(***************************************************************************)
\* C19: for the q quads that getQuads emits, getQuadsAsMesh returns a mesh
\* with exactly 4q vertices in emission order and exactly 2q faces, quad n
\* giving the faces (4n, 4n+1, 4n+3) and (4n+1, 4n+2, 4n+3).
C19_QuadMesh ==
    gop.kind = "getQuadsAsMesh" =>
        LET emitted == getQuads(geo, vol, gop.threshold, gop.orientation)
            q == Len(emitted) \div 4
            m == gop.ret
        IN  /\ Len(emitted) = 4 * q
            /\ Len(m.vertices) = 4 * q
            /\ \A n \in 1 .. (4 * q) :
                   /\ m.vertices[n].x = emitted[n].x
                   /\ m.vertices[n].y = emitted[n].y
                   /\ m.vertices[n].z = emitted[n].z
            /\ Len(m.faces) = 2 * q
            /\ \A n \in 0 .. (q - 1) :
                   /\ m.faces[2 * n + 1] =
                          [a |-> 4 * n, b |-> 4 * n + 1, c |-> 4 * n + 3]
                   /\ m.faces[2 * n + 2] =
                          [a |-> 4 * n + 1, b |-> 4 * n + 2, c |-> 4 * n + 3]

\* a field whose quads make a mesh of twelve faces
C19_Witness ==
    /\ gop.kind = "getQuadsAsMesh"
    /\ Len(gop.ret.vertices) = 24
    /\ Len(gop.ret.faces) = 12


(***************************************************************************)
(* struct Giterator_t: a position and a displacement in a container.       *)
(***************************************************************************)
\* the counts n of operator+( n ) lie in -MaxCount .. MaxCount
MaxCount == 2

Displacement_s(x, y, z) == [x |-> x, y |-> y, z |-> z]

\* Position_s::operator-( Position_s )
PositionDiff(a, b) == Displacement_s(a.x - b.x, a.y - b.y, a.z - b.z)

\* Position_s::operator+( Displacement_s )
PositionPlus(p, d) == Pos(p.x + d.x, p.y + d.y, p.z + d.z)

\* Displacement_s::operator*( int )
DisplacementTimes(d, f) == Displacement_s(d.x * f, d.y * f, d.z * f)

Giterator_t(pos, diff) == [pos |-> pos, diff |-> diff]

\* operator++
Increment(it) == [it EXCEPT !.pos = PositionPlus(@, it.diff)]

\* operator+( count )
IteratorPlus(it, count) ==
    [it EXCEPT !.pos = PositionPlus(@, DisplacementTimes(it.diff, count))]

\* the quotient a / b of two ints: truncated toward zero
IntDiv(a, b) ==
    IF (a < 0) = (b < 0) THEN Abs(a) \div Abs(b) ELSE -(Abs(a) \div Abs(b))

\* operator-( Giterator_t ), for iterators of one displacement
IteratorMinus(it, o) ==
    LET bdiff == PositionDiff(it.pos, o.pos)
    IN  IF it.diff.x > 0 THEN IntDiv(bdiff.x, it.diff.x)
        ELSE IF it.diff.y > 0 THEN IntDiv(bdiff.y, it.diff.y)
        ELSE IF it.diff.z > 0 THEN IntDiv(bdiff.z, it.diff.z)
        ELSE 0

\* operator==, for iterators of one displacement
IteratorEq(it, s) == it.pos = s.pos

\* operator<, for iterators of one displacement; the second test is
\* abs( df.x > 0 ) || abs( df.y > 0 ) || abs( df.z ) > 0
IteratorLess(it, s) ==
    LET df == PositionDiff(s.pos, it.pos)
    IN  IF df.x * it.diff.x < 0 \/ df.y * it.diff.y < 0
           \/ df.z * it.diff.z < 0
        THEN FALSE
        ELSE df.x > 0 \/ df.y > 0 \/ Abs(df.z) > 0

\* operator<=, for iterators of one displacement
IteratorLeq(it, s) == IteratorLess(it, s) \/ it.pos = s.pos

\* toss for the plane the iterator moves towards on one axis: the
\* quotient, computed in double, stored in the float toss.  The double of
\* a quotient of small whole numbers is no halfway case of two floats
\* unless the quotient is one, so the float is the one nearest to the
\* quotient.
Toss(size, pos, diff) ==
    Exact(FloatRound(RDiv(RSub(IF diff > 0 THEN RAdd(RInt(size), Rat(1, 2))
                                           ELSE Rat(-3, 2),
                               RInt(pos)),
                          RInt(diff))))

\* if ( toss < u ) u = toss, on one axis
Clip(u, size, pos, diff) ==
    IF diff = 0 THEN u
    ELSE CHOOSE r \in {IF RLessWide(toss.q, v.q) THEN toss ELSE v :
                          toss \in {Toss(size, pos, diff)}, v \in {u}} : TRUE

\* gend( begin ) in container c.  u and toss are floats; floor( u ) is the
\* double of ::floor, and the position is computed in double and converted
\* to int.
gend(c, begin) ==
    LET u0 == Exact(FloatRound(RInt(Max2(c.sizeX, Max2(c.sizeY, c.sizeZ)))))
        u1 == Clip(u0, c.sizeX, begin.pos.x, begin.diff.x)
        u2 == Clip(u1, c.sizeY, begin.pos.y, begin.diff.y)
        u3 == Clip(u2, c.sizeZ, begin.pos.z, begin.diff.z)
        steps == RFloor(u3.q)
    IN  Giterator_t(Pos(begin.pos.x + steps * begin.diff.x,
                        begin.pos.y + steps * begin.diff.y,
                        begin.pos.z + steps * begin.diff.z), begin.diff)

\* the positions pushed for one nonzero component: 'first' is the fixed
\* coordinate, n counts the inner loop fastest
StartsXOneLine(c, diff) ==
    IF diff.x = 0 THEN <<>>
    ELSE [n \in 1 .. (c.sizeY * c.sizeZ) |->
             Pos(IF diff.x > 0 THEN 0 ELSE c.sizeX - 1, 0, 0)]

StartsX(c, diff) ==
    IF diff.x = 0 THEN <<>>
    ELSE [n \in 1 .. (c.sizeY * c.sizeZ) |->
             Pos(IF diff.x > 0 THEN 0 ELSE c.sizeX - 1,
                 (n - 1) \div c.sizeZ, (n - 1) % c.sizeZ)]

StartsY(c, diff) ==
    IF diff.y = 0 THEN <<>>
    ELSE [n \in 1 .. (c.sizeX * c.sizeZ) |->
             Pos((n - 1) \div c.sizeZ,
                 IF diff.y > 0 THEN 0 ELSE c.sizeY - 1, (n - 1) % c.sizeZ)]

StartsZ(c, diff) ==
    IF diff.z = 0 THEN <<>>
    ELSE [n \in 1 .. (c.sizeX * c.sizeY) |->
             Pos((n - 1) \div c.sizeY, (n - 1) % c.sizeY,
                 IF diff.z > 0 THEN 0 ELSE c.sizeZ - 1)]

iteratorPositions(c, diff) ==
    StartsX(c, diff) \o StartsY(c, diff) \o StartsZ(c, diff)

(***************************************************************************)
(* SpecIter: iterators over a container (arr).  gin holds the run: a call  *)
(* of iteratorPositions, a sweep 'it = begin; end = gend( begin );         *)
(* while ( it != end ) ++it', or the differences ( a + n ) - a and         *)
(* gend( a ) - a, followed by the comparisons a < a + n and a <= a + n.    *)
(* gop records the call of a run of the first and third kind, pc the       *)
(* iterators of a sweep and the positions it visited.                      *)
(***************************************************************************)
\* the displacements of the runs: every component in -MaxFactor .. MaxFactor
Displacements ==
    {Displacement_s(x, y, z) : x \in -MaxFactor .. MaxFactor,
                               y \in -MaxFactor .. MaxFactor,
                               z \in -MaxFactor .. MaxFactor}

\* the in-range positions of container c
InRange(c) ==
    {Pos(i, j, k) : i \in 0 .. (c.sizeX - 1), j \in 0 .. (c.sizeY - 1),
                    k \in 0 .. (c.sizeZ - 1)}

IterRuns(c) ==
    {[kind |-> "positions", diff |-> d] : d \in Displacements}
    \cup {[kind |-> "sweep", begin |-> Giterator_t(p, d)] :
             p \in InRange(c), d \in Displacements}
    \cup {[kind |-> "minus", a |-> Giterator_t(p, d), n |-> n] :
             p \in InRange(c), d \in Displacements,
             n \in -MaxCount .. MaxCount}

InitIter ==
    \E sx \in 1 .. MaxDim, sy \in 1 .. MaxDim, sz \in 1 .. MaxDim :
        /\ sx * sy * sz <= MaxVoxels
        /\ arr = VolumeArray(sx, sy, sz, 0)
        /\ vol = NoOp
        /\ op = NoOp
        /\ geo = NoGeo
        /\ gin \in IterRuns(arr)
        /\ gop = NoOp
        /\ dvField = NoDist
        /\ pc = NoDist

IteratorPositions ==
    /\ gin.kind = "positions" /\ gop.kind = "none"
    /\ gop' = [kind |-> "positions", res |-> iteratorPositions(arr, gin.diff)]
    /\ UNCHANGED <<volVars, geo, gin, distVars>>

\* it = begin; end = gend( begin )
Gend ==
    /\ gin.kind = "sweep" /\ pc.kind = "none"
    /\ pc' = [kind |-> "sweep", it |-> gin.begin,
              end |-> gend(arr, gin.begin), visited |-> <<>>]
    /\ UNCHANGED <<volVars, geoVars, dvField>>

\* one pass of while ( it != end ) ++it
SweepStep ==
    /\ pc.kind = "sweep"
    /\ ~ IteratorEq(pc.it, pc.end)
    /\ Len(pc.visited) <= MaxDim
    /\ pc' = [pc EXCEPT !.it = Increment(@),
                        !.visited = Append(@, pc.it.pos)]
    /\ UNCHANGED <<volVars, geoVars, dvField>>

\* ( a + n ) - a and gend( a ) - a
Minus ==
    /\ gin.kind = "minus" /\ gop.kind = "none"
    /\ gop' = [kind |-> "minus",
               res |-> IteratorMinus(IteratorPlus(gin.a, gin.n), gin.a),
               row |-> IteratorMinus(gend(arr, gin.a), gin.a)]
    /\ UNCHANGED <<volVars, geo, gin, distVars>>

\* a < a + n and a <= a + n, after the differences of the run
Less ==
    /\ gin.kind = "minus" /\ gop.kind = "minus"
    /\ gop' = [kind |-> "less",
               less |-> IteratorLess(gin.a, IteratorPlus(gin.a, gin.n)),
               leq |-> IteratorLeq(gin.a, IteratorPlus(gin.a, gin.n))]
    /\ UNCHANGED <<volVars, geo, gin, distVars>>

NextIter == IteratorPositions \/ Gend \/ SweepStep \/ Minus \/ Less

\* a sweep keeps taking its steps
SpecIter == InitIter /\ [][NextIter]_vars /\ WF_vars(SweepStep)

(***************************************************************************)
(* Claims about the iterators, checked under SpecIter.                     *)
(***************************************************************************)
\* one component is 1 or -1 and the other two are zero
UnitAxis(d) ==
    /\ Abs(d.x) + Abs(d.y) + Abs(d.z) = 1

\* one component is nonzero and the other two are zero
SingleAxis(d) ==
    Cardinality({a \in {"x", "y", "z"} : d[a] # 0}) = 1

\* the in-range positions begin.pos, begin.pos + diff, ... up to the first
\* position out of range, for a displacement that is not zero
RECURSIVE LineFrom(_, _)
LineFrom(c, it) ==
    IF it.pos \in InRange(c) THEN <<it.pos>> \o LineFrom(c, Increment(it))
    ELSE <<>>

\* the positions of the sweep from 'it' to 'end', at most n of them
RECURSIVE Walk(_, _, _)
Walk(it, end, n) ==
    IF n = 0 \/ IteratorEq(it, end) THEN <<>>
    ELSE <<it.pos>> \o Walk(Increment(it), end, n - 1)

\* the positions of the sweep of container c that starts at position p
SweepOf(c, p, d) ==
    Walk(Giterator_t(p, d), gend(c, Giterator_t(p, d)), MaxDim + 1)

\* the number of times position v occurs in the sequence of positions w
Occurrences(w, v) == Cardinality({n \in 1 .. Len(w) : w[n] = v})

\* On the containers of SpecIter, for a displacement with a single nonzero
\* unit component of either sign, the lines from the positions of
\* iteratorPositions to their gend partition the volume: every in-range
\* voxel is visited by exactly one line, exactly once, no line leaves the
\* volume, and the number of start positions is the product of the two
\* orthogonal dimensions.
LinesPartition ==
    (gop.kind = "positions" /\ UnitAxis(gin.diff)) =>
        LET d == gin.diff
            starts == gop.res
            line(n) == SweepOf(arr, starts[n], d)
        IN  /\ \A v \in InRange(arr) :
                   /\ Cardinality({n \in 1 .. Len(starts) :
                                      Occurrences(line(n), v) > 0}) = 1
                   /\ \A n \in 1 .. Len(starts) : Occurrences(line(n), v) <= 1
            /\ \A n \in 1 .. Len(starts) :
                   \A m \in 1 .. Len(line(n)) : line(n)[m] \in InRange(arr)
            /\ Len(starts) =
                   IF d.x # 0 THEN arr.sizeY * arr.sizeZ
                   ELSE IF d.y # 0 THEN arr.sizeX * arr.sizeZ
                   ELSE arr.sizeX * arr.sizeY

\* the sweep of a run with an in-range start and a unit axis-aligned
\* displacement
UnitSweep == pc.kind = "sweep" /\ UnitAxis(gin.begin.diff)

SweepDone == pc.kind = "sweep" /\ IteratorEq(pc.it, pc.end)

\* On the containers of SpecIter, for an in-range begin and a unit
\* axis-aligned displacement of either sign, the sweep
\* 'it = begin; while (it != end) ++it' with end = gend(begin) terminates,
\* visits exactly the in-range positions of the line from begin onward,
\* and end is the first out-of-range position of that line.
SweepHalfOpen ==
    /\ [](UnitSweep =>
            LET line == LineFrom(arr, gin.begin)
            IN  /\ pc.end = IteratorPlus(gin.begin, Len(line))
                /\ Len(pc.visited) <= Len(line)
                /\ pc.visited = SubSeq(line, 1, Len(pc.visited))
                /\ SweepDone => pc.visited = line)
    /\ (UnitSweep ~> SweepDone)

\* C14: for an iterator a with a single-axis nonzero displacement of either
\* sign and any n, (a + n) - a = n, and gend(a) - a is the number of voxels
\* the sweep from a visits, for negative directions as for positive ones.
C14_IndexDistance ==
    (gop.kind = "minus" /\ SingleAxis(gin.a.diff)) =>
        /\ gop.res = gin.n
        /\ gop.row = Len(SweepOf(arr, gin.a.pos, gin.a.diff))

\* C17: a displacement with two or three nonzero components, or with none,
\* is rejected by an assertion failure: no call of iteratorPositions and no
\* call of gend returns for it.
C17_NonAxisRejected ==
    /\ (gin.kind = "positions" /\ ~ SingleAxis(gin.diff)) =>
           gop.kind # "positions"
    /\ (gin.kind = "sweep" /\ ~ SingleAxis(gin.begin.diff)) =>
           pc.kind # "sweep"


(***************************************************************************)
(* filterInplace over a VolumeArray.  math::FIRFilter_t is a class of an   *)
(* external library: convolute( sit, x, rowSize ) is taken to be the       *)
(* normalised sum of the kernel over the values sit[ i ] whose index       *)
(* x + i lies in the row, here with the kernel (1, 2, 1).  The values are  *)
(* far inside the range of Value_t, so the clamp to its limits keeps them. *)
(***************************************************************************)
\* #pragma omp parallel for schedule( dynamic, 100 )
FilterChunk == 100

\* the number of voxels of the filtered lines
MaxRow == 2

\* the number of lines beyond the first chunk
MaxExtraLines == 1

\* omp_get_max_threads()
MaxWorkers == 2

\* Giterator_t::value
IteratorValue(c, it) == ArrayGet(c, it.pos.x, it.pos.y, it.pos.z)

\* Giterator_t::setValue
IteratorSetValue(c, it, value) ==
    ArraySet(c, it.pos.x, it.pos.y, it.pos.z, value)

\* the offsets i of the kernel whose index x + i lies in the row
Taps(x, rowSize) == {i \in -1 .. 1 : x + i >= 0 /\ x + i < rowSize}

Kernel(i) == IF i = 0 THEN 2 ELSE 1

\* the weight of offset i, and the weighted value sit[ i ]
Weight(x, rowSize, i) == IF i \in Taps(x, rowSize) THEN Kernel(i) ELSE 0

Tap(c, sit, x, rowSize, i) ==
    IF i \in Taps(x, rowSize)
    THEN Kernel(i) * IteratorValue(c, IteratorPlus(sit, i)) ELSE 0

\* the value stored for convolute( sit, x, rowSize ): the conversion of
\* the double to Value_t truncates toward zero
convolute(c, sit, x, rowSize) ==
    IntDiv(Tap(c, sit, x, rowSize, -1) + Tap(c, sit, x, rowSize, 0)
           + Tap(c, sit, x, rowSize, 1),
           Weight(x, rowSize, -1) + Weight(x, rowSize, 0)
           + Weight(x, rowSize, 1))

\* the cells of the container that convolute( sit, x, rowSize ) reads
ConvoluteReads(c, sit, x, rowSize) ==
    {ArrayIndex(c, q.x, q.y, q.z) :
        q \in {r \in {IteratorPlus(sit, i).pos : i \in Taps(x, rowSize)} :
                  ~ ArrayOutOfRange(c, r.x, r.y, r.z)}}

\* rowSize = send - sit for the line that starts at pos
RowSize(c, pos, diff) ==
    IteratorMinus(gend(c, Giterator_t(pos, diff)), Giterator_t(pos, diff))

\* the vector 'filtered' of the line that starts at pos
FilteredRow(c, pos, diff) ==
    [n \in 1 .. RowSize(c, pos, diff) |->
        convolute(c, IteratorPlus(Giterator_t(pos, diff), n - 1), n - 1,
                  RowSize(c, pos, diff))]

\* the write-back loop from its pass number x on
RECURSIVE WriteRow(_, _, _, _, _)
WriteRow(c, pos, diff, filtered, x) ==
    IF x >= Len(filtered) THEN c
    ELSE WriteRow(IteratorSetValue(c, IteratorPlus(Giterator_t(pos, diff), x),
                                   filtered[x + 1]),
                  pos, diff, filtered, x + 1)

\* one pass of the loop over poss
FilterLine(c, pos, diff) ==
    WriteRow(c, pos, diff, FilteredRow(c, pos, diff), 0)

\* the passes lo .. hi of the loop over poss, taken in the order 'order'.
\* The range is halved and the container after the first half is asked for
\* its size before the second half starts, so that the evaluation does not
\* nest once per line.
RECURSIVE FilterLines(_, _, _, _, _, _)
FilterLines(c, poss, diff, order, lo, hi) ==
    IF lo > hi THEN c
    ELSE IF lo = hi THEN FilterLine(c, poss[order[lo]], diff)
    ELSE LET mid == (lo + hi) \div 2
             first == FilterLines(c, poss, diff, order, lo, mid)
         IN  IF first.sizeX = c.sizeX
             THEN FilterLines(first, poss, diff, order, mid + 1, hi)
             ELSE first

\* filterInplace with a single thread
filterInplace(c, diff) ==
    LET poss == iteratorPositions(c, diff)
    IN  FilterLines(c, poss, diff, [p \in 1 .. Len(poss) |-> p], 1, Len(poss))

(***************************************************************************)
(* SpecFilter: the parallel loop of filterInplace over the container arr.  *)
(* gin holds the call: the displacement, the number of threads, poss and   *)
(* the container as it was before the loop.  pc holds the loop: 'next' is  *)
(* the first line no thread has been given yet, and for every thread the   *)
(* lines p .. hi - 1 of its chunk that remain, the loop it is in, that     *)
(* loop's x, rowSize and the vector 'filtered'.  op records the reads and  *)
(* the writes: the pairs of a cell and a thread that has read, or has      *)
(* written, the cell.                                                      *)
(***************************************************************************)
UnitDisplacements ==
    {Displacement_s(1, 0, 0), Displacement_s(-1, 0, 0),
     Displacement_s(0, 1, 0), Displacement_s(0, -1, 0),
     Displacement_s(0, 0, 1), Displacement_s(0, 0, -1)}

\* the container: 'row' voxels along the displacement, 'lines' voxels
\* along another axis, one along the third
FilterContainer(diff, row, lines) ==
    IF diff.x # 0 THEN VolumeArray(row, lines, 1, 0)
    ELSE IF diff.y # 0 THEN VolumeArray(lines, row, 1, 0)
    ELSE VolumeArray(lines, 1, row, 0)

Idle == [phase |-> "idle"]

InitFilter ==
    \E diff \in UnitDisplacements, row \in 1 .. MaxRow,
       lines \in FilterChunk .. (FilterChunk + MaxExtraLines),
       workers \in 1 .. MaxWorkers :
        LET c == FilterContainer(diff, row, lines)
            filled == [c EXCEPT !.data =
                          [n \in DOMAIN c.data |-> (n * n) % 3]]
        IN  /\ arr = filled
            /\ gin = [kind |-> "filter", diff |-> diff, workers |-> workers,
                      poss |-> iteratorPositions(filled, diff),
                      before |-> filled]
            /\ pc = [next |-> 0, thread |-> [w \in 1 .. workers |-> Idle]]
            /\ op = [reads |-> {}, writes |-> {}]
            /\ vol = NoOp
            /\ geo = NoGeo
            /\ gop = NoOp
            /\ dvField = NoDist

\* a thread at the start of the pass for line p: sit, send and rowSize
StartLine(p, hi) ==
    [phase |-> "filter", p |-> p, hi |-> hi, x |-> 0, filtered |-> <<>>,
     rowSize |-> RowSize(arr, gin.poss[p + 1], gin.diff)]

\* thread t with the line after line p of its chunk, or without a chunk
NextLine(t) == IF t.p + 1 < t.hi THEN StartLine(t.p + 1, t.hi) ELSE Idle

\* a thread without a chunk is given the next FilterChunk lines
TakeChunk(w) ==
    /\ pc.thread[w].phase = "idle"
    /\ pc.next < Len(gin.poss)
    /\ LET hi == IF pc.next + FilterChunk < Len(gin.poss)
                 THEN pc.next + FilterChunk ELSE Len(gin.poss)
       IN  pc' = [next |-> hi,
                  thread |-> [pc.thread EXCEPT ![w] = StartLine(pc.next, hi)]]
    /\ UNCHANGED <<vol, arr, op, geoVars, dvField>>

\* a line with rowSize = 0: neither loop has a pass
EmptyLine(w) ==
    LET t == pc.thread[w]
    IN  /\ t.phase = "filter"
        /\ t.rowSize = 0
        /\ pc' = [pc EXCEPT !.thread[w] = NextLine(t)]
        /\ UNCHANGED <<vol, arr, op, geoVars, dvField>>

\* one pass of the first loop: *dit = convolute( sit, x, rowSize ); after
\* the last pass sit.pos = pos
Convolute(w) ==
    LET t == pc.thread[w]
        sit == IteratorPlus(Giterator_t(gin.poss[t.p + 1], gin.diff), t.x)
    IN  /\ t.phase = "filter"
        /\ t.x < t.rowSize
        /\ pc' = [pc EXCEPT !.thread[w] =
               [t EXCEPT !.filtered =
                             Append(@, convolute(arr, sit, t.x, t.rowSize)),
                         !.x = IF t.x + 1 < t.rowSize THEN t.x + 1 ELSE 0,
                         !.phase = IF t.x + 1 < t.rowSize THEN "filter"
                                   ELSE "write"]]
        /\ op' = [op EXCEPT !.reads =
               @ \cup {<<n, w>> : n \in ConvoluteReads(arr, sit, t.x, t.rowSize)}]
        /\ UNCHANGED <<vol, arr, geoVars, dvField>>

WriteBackNowhere(c, it, value) == c

\* sit.setValue( *dit )
WriteBackCell(c, it, value) == IteratorSetValue(c, it, value)

\* one pass of the second loop
WriteBack(w) ==
    LET t == pc.thread[w]
        sit == IteratorPlus(Giterator_t(gin.poss[t.p + 1], gin.diff), t.x)
    IN  /\ t.phase = "write"
        /\ arr' = WriteBackCell(arr, sit, t.filtered[t.x + 1])
        /\ op' = [op EXCEPT !.writes =
               @ \cup {<<ArrayIndex(arr, sit.pos.x, sit.pos.y, sit.pos.z), w>>}]
        /\ pc' = [pc EXCEPT !.thread[w] =
               IF t.x + 1 < t.rowSize THEN [t EXCEPT !.x = t.x + 1]
               ELSE NextLine(t)]
        /\ UNCHANGED <<vol, geoVars, dvField>>

NextFilter ==
    \/ \E w \in 1 .. gin.workers : TakeChunk(w)
    \/ \E w \in 1 .. gin.workers : EmptyLine(w)
    \/ \E w \in 1 .. gin.workers : Convolute(w)
    \/ \E w \in 1 .. gin.workers : WriteBack(w)

SpecFilter == InitFilter /\ [][NextFilter]_vars

(***************************************************************************)
(* Claim about the parallel filterInplace, checked under SpecFilter.       *)
(***************************************************************************)
\* every thread is past its last line and no line is left
FilterDone ==
    /\ pc.next = Len(gin.poss)
    /\ \A w \in 1 .. gin.workers : pc.thread[w].phase = "idle"

\* filterInplace with a single thread that takes the lines last to first
filterInplaceReversed(c, diff) ==
    LET poss == iteratorPositions(c, diff)
    IN  FilterLines(c, poss, diff,
                    [p \in 1 .. Len(poss) |-> Len(poss) + 1 - p], 1, Len(poss))

\* C15: in the parallel filterInplace over a VolumeArray with an
\* axis-aligned unit displacement, whatever lines the threads are given and
\* however their steps interleave, no cell is written by two threads, no
\* cell written by one thread is read by another, and the final array is
\* the one that processing the lines one after the other gives, in the
\* order of poss or in the opposite order.
C15_LinesIndependent ==
    /\ Cardinality({a[1] : a \in op.writes}) = Cardinality(op.writes)
    /\ \A a \in op.writes :
           \A w \in 1 .. gin.workers : <<a[1], w>> \in op.reads => w = a[2]
    /\ FilterDone =>
           /\ arr = filterInplace(gin.before, gin.diff)
           /\ arr = filterInplaceReversed(gin.before, gin.diff)

\* two threads have filtered lines of two voxels, and the array changed
C15_Witness ==
    /\ FilterDone
    /\ {a[2] : a \in op.writes} = {1, 2}
    /\ {a[2] : a \in op.reads} = {1, 2}
    /\ arr.sizeX = 2 /\ gin.diff = Displacement_s(1, 0, 0)
    /\ arr # gin.before

(***************************************************************************)
(* ScalarField_t::downscale over a VolumeArray container: the three        *)
(* filter passes, then the copy into tmp through paired iterators, the one *)
(* on tmp moving by one voxel and the one on the old container by 'factor' *)
(* voxels.  The result is tmp's container, the cells of tmp that were      *)
(* assigned and the cells of the old container that were read.             *)
(* The filter of the passes is the one of convolute above.                 *)
(***************************************************************************)
\* filterInplace along directions[0], directions[1], directions[2], each
\* pass on the container the pass before it left
filterAxes(c) ==
    CHOOSE fz \in {filterInplace(fy, Displacement_s(0, 0, 1)) :
                     fy \in {filterInplace(fx, Displacement_s(0, 1, 0)) :
                         fx \in {filterInplace(c, Displacement_s(1, 0, 0))}}} :
        TRUE

\* the passes of a loop while( itN != endN && itO != endO ) whose body ends
\* with ++itN; ++itO: the positions the two iterators hold in each pass
RECURSIVE Paired(_, _, _, _)
Paired(itN, endN, itO, endO) ==
    IF ~IteratorEq(itN, endN) /\ ~IteratorEq(itO, endO)
    THEN <<<<itN.pos, itO.pos>>>>
         \o Paired(Increment(itN), endN, Increment(itO), endO)
    ELSE <<>>

\* the passes of the loop along 'axis' that starts at posN in tmp and at
\* posO in the old container c
PairedAlong(tmp, c, factor, axis, posN, posO) ==
    LET dispNew == IF axis = 0 THEN Displacement_s(1, 0, 0)
                   ELSE IF axis = 1 THEN Displacement_s(0, 1, 0)
                   ELSE Displacement_s(0, 0, 1)
        dispOrig == DisplacementTimes(dispNew, factor)
        itN == Giterator_t(posN, dispNew)
        itO == Giterator_t(posO, dispOrig)
    IN  Paired(itN, gend(tmp, itN), itO, gend(c, itO))

\* the passes of the innermost loop over all passes of the two outer loops
copyPasses(tmp, c, factor) ==
    LET xs == PairedAlong(tmp, c, factor, 0, Pos(0, 0, 0), Pos(0, 0, 0))
        ys(px) == PairedAlong(tmp, c, factor, 1, px[1], px[2])
        zs(py) == PairedAlong(tmp, c, factor, 2, py[1], py[2])
    IN  UNION {UNION {{zs(ys(xs[m])[n])[k] :
                          k \in 1 .. Len(zs(ys(xs[m])[n]))} :
                      n \in 1 .. Len(ys(xs[m]))} :
               m \in 1 .. Len(xs)}

\* ScalarField_t tmp( ll, upper, voxelSize * factor, 0 ): its container,
\* for the georeferencing ng that downscale leaves
tmpContainer(ng) == VolumeArray(ng.sizeX, ng.sizeY, ng.sizeZ, 0)

\* the passes that take the cell of tmp with index n
passesAt(tmp, passes, n) ==
    {pr \in passes : /\ ~ArrayOutOfRange(tmp, pr[1].x, pr[1].y, pr[1].z)
                     /\ ArrayIndex(tmp, pr[1].x, pr[1].y, pr[1].z) = n}

\* zitO in the pass that takes the cell of tmp with index n: its
\* displacement is dispOrig[2]
zitOAt(tmp, passes, n, factor) ==
    Giterator_t((CHOOSE pr \in passesAt(tmp, passes, n) : TRUE)[2],
                Displacement_s(0, 0, factor))

\* zitN.setValue( zitO.value() ) in every pass.  No position of tmp is
\* taken by two passes, so the assignments are made at once.
assignPasses(tmp, c, passes, factor) ==
    [tmp |-> [tmp EXCEPT !.data =
                 [n \in DOMAIN tmp.data |->
                     IF passesAt(tmp, passes, n) = {} THEN tmp.data[n]
                     ELSE IteratorValue(c, zitOAt(tmp, passes, n,
                                                        factor))]],
     assigned |-> {pr[1] : pr \in passes},
     sampled |-> {pr[2] : pr \in passes}]

\* the copy of the filtered container c into tmp
downscaleCopy(tmp, c, factor) ==
    assignPasses(tmp, c, copyPasses(tmp, c, factor), factor)

(***************************************************************************)
(* SpecDown: a scalar field over a VolumeArray is constructed with nonzero *)
(* voxel values and downscaled once.  geo is the field's georeferencing    *)
(* and arr its container; gop records the call: the factor, the container  *)
(* after the filter passes, and the cells assigned and read by the copy.   *)
(***************************************************************************)
MaxSeed == 2

InitDown ==
    \E lower \in Lowers, voxelSize \in VoxelSizes, seed \in 0 .. MaxSeed,
       sx \in 1 .. MaxDim, sy \in 1 .. MaxDim, sz \in 1 .. MaxDim :
        /\ sx * sy * sz <= MaxVoxels
        /\ \E upper \in {FPos(FAdd(lower.x, FMul(FInt(sx), voxelSize)),
                              FAdd(lower.y, FMul(FInt(sy), voxelSize)),
                              FAdd(lower.z, FMul(FInt(sz), voxelSize)))} :
              \E g \in {GeoVolume_t(lower, upper, voxelSize, err) :
                            err \in GeoErrs(lower, upper, voxelSize)} :
                 \E c \in {VolumeArray(g.sizeX, g.sizeY, g.sizeZ, 0)} :
                    /\ geo = g
                    /\ arr = [c EXCEPT !.data =
                                 [n \in DOMAIN c.data |->
                                     1 + ((n * n + seed) % 3)]]
                    /\ gop = [kind |-> "construct", lower |-> lower,
                              upper |-> upper, voxelSize |-> voxelSize]
        /\ gin = NoGeo
        /\ vol = NoOp
        /\ op = NoOp
        /\ dvField = NoDist
        /\ pc = NoDist

DownscaleField ==
    /\ gop.kind = "construct"
    /\ \E factor \in 1 .. MaxFactor :
          \E filtered \in {filterAxes(arr)},
             ng \in {downscale(geo, factor, err) :
                        err \in downscaleErrs(geo, factor)} :
             \E tmp \in {tmpContainer(ng)} :
                \E st \in {downscaleCopy(tmp, filtered, factor)} :
                   /\ geo' = ng
                   /\ arr' = st.tmp
                   /\ gop' = [kind |-> "downscaleField", factor |-> factor,
                              filtered |-> filtered,
                              assigned |-> st.assigned,
                              sampled |-> st.sampled]
    /\ UNCHANGED <<vol, op, gin, distVars>>

NextDown == DownscaleField

SpecDown == InitDown /\ [][NextDown]_vars

(***************************************************************************)
(* Claims about the copy of downscale                                      *)
(***************************************************************************)
\* the old cells whose coordinates are all multiples of factor
Multiples(c, factor) ==
    {o \in InRange(c) : o.x % factor = 0 /\ o.y % factor = 0
                        /\ o.z % factor = 0}

\* C20: after downscale( f ), every in-range voxel n of the new field holds
\* the filtered value of the old voxel at f * n on every axis: the paired
\* sweep assigns every in-range voxel of the new field and reads every
\* in-range old voxel whose coordinates are multiples of f.
C20_DownscaleCopy ==
    gop.kind = "downscaleField" =>
        /\ \A n \in InRange(arr) :
              IteratorValue(arr, Giterator_t(n, Displacement_s(1, 0, 0)))
              = ArrayGet(gop.filtered, gop.factor * n.x, gop.factor * n.y,
                         gop.factor * n.z)
        /\ gop.assigned = InRange(arr)
        /\ Multiples(gop.filtered, gop.factor) \subseteq gop.sampled

(***************************************************************************)
(* ScalarField_t::isosurfaceCubes.  The cells are those of the grid        *)
(* extended by one voxel below zero on every axis.  A triangle of the      *)
(* result is recorded as the cell it comes from, the cell's cubeIndex and  *)
(* its number among the cell's triangles: the edge and triangle tables     *)
(* are not part of these sources, and the number of triangles of a         *)
(* cubeIndex is taken from the description of the tables (none when no     *)
(* edge is crossed, otherwise up to five).                                 *)
(***************************************************************************)
\* schedule( dynamic, 5 )
CubesChunk == 5

\* the grid offsets of vertices[0] .. vertices[7]
CubeCorners ==
    <<Pos(0, 0, 0), Pos(1, 0, 0), Pos(1, 1, 0), Pos(0, 1, 0),
      Pos(0, 0, 1), Pos(1, 0, 1), Pos(1, 1, 1), Pos(0, 1, 1)>>

\* values[0] .. values[7] of the cell at ( i, j, k )
cubeValues(c, i, j, k) ==
    [n \in 1 .. 8 |-> ArrayGet(c, i + CubeCorners[n].x, j + CubeCorners[n].y,
                               k + CubeCorners[n].z)]

\* the bit of cubeIndex set by values[n - 1]
cubeBit(values, n, threshold, orientation) ==
    IF orientation = TO_MIN
    THEN (IF values[n] < threshold THEN Exp2(n - 1) ELSE 0)
    ELSE (IF values[n] > threshold THEN Exp2(n - 1) ELSE 0)

cubeIndexOf(values, threshold, orientation) ==
    cubeBit(values, 1, threshold, orientation)
    + cubeBit(values, 2, threshold, orientation)
    + cubeBit(values, 3, threshold, orientation)
    + cubeBit(values, 4, threshold, orientation)
    + cubeBit(values, 5, threshold, orientation)
    + cubeBit(values, 6, threshold, orientation)
    + cubeBit(values, 7, threshold, orientation)
    + cubeBit(values, 8, threshold, orientation)

\* the number of corners whose bit is set in cubeIndex
RECURSIVE cornersSet(_)
cornersSet(cubeIndex) ==
    IF cubeIndex = 0 THEN 0
    ELSE (cubeIndex % 2) + cornersSet(cubeIndex \div 2)

\* the number of triangles the triangle table lists for cubeIndex: none
\* when all corners are on one side, else one per corner of the smaller
\* side
triangleCount(cubeIndex) ==
    IF cornersSet(cubeIndex) <= 4 THEN cornersSet(cubeIndex)
    ELSE 8 - cornersSet(cubeIndex)

\* isoFromCube: the triangles pushed to retval for the cell at ( i, j, k )
isoFromCube(retval, c, i, j, k, threshold, orientation) ==
    retval \o [t \in 1 .. triangleCount(cubeIndexOf(cubeValues(c, i, j, k),
                                                    threshold, orientation)) |->
                  [cell |-> Pos(i, j, k),
                   cubeIndex |-> cubeIndexOf(cubeValues(c, i, j, k),
                                             threshold, orientation),
                   tri |-> t]]

\* the cells of the three loops in the order a single thread takes them:
\* i outermost, k innermost, each from -1
CubeCells(c) ==
    [n \in 1 .. ((c.sizeX + 1) * (c.sizeY + 1) * (c.sizeZ + 1)) |->
        Pos(((n - 1) \div ((c.sizeY + 1) * (c.sizeZ + 1))) - 1,
            (((n - 1) \div (c.sizeZ + 1)) % (c.sizeY + 1)) - 1,
            ((n - 1) % (c.sizeZ + 1)) - 1)]

\* isoFromCube for the cells cells[n], cells[n + 1], ... after retval
RECURSIVE isoFromCubes(_, _, _, _, _, _)
isoFromCubes(retval, c, cells, n, threshold, orientation) ==
    IF n > Len(cells) THEN retval
    ELSE isoFromCubes(isoFromCube(retval, c, cells[n].x, cells[n].y,
                                  cells[n].z, threshold, orientation),
                      c, cells, n + 1, threshold, orientation)

\* isosurfaceCubes with a single thread
isosurfaceCubes(c, threshold, orientation) ==
    isoFromCubes(<<>>, c, CubeCells(c), 1, threshold, orientation)

\* retval.insert( retval.end(), vec.begin(), vec.end() ) for the buffers
\* w, w + 1, ... of tVertices
RECURSIVE insertBuffers(_, _, _)
insertBuffers(retval, tVertices, w) ==
    IF w > Len(tVertices) THEN retval
    ELSE insertBuffers(retval \o tVertices[w], tVertices, w + 1)

(***************************************************************************)
(* SpecCubes: the parallel loop of isosurfaceCubes over the container arr. *)
(* gin holds the call and the number of threads.  pc holds the loop:       *)
(* 'next' is the first i no thread has been given yet, and for every       *)
(* thread the values i .. hi - 1 of its chunk that remain and the j and k  *)
(* of its next cell.  op holds tVertices and, for every thread, the cells  *)
(* it has passed to isoFromCube, in order.  gop holds the returned list.   *)
(***************************************************************************)
MaxExtraSlabs == 1

InitCubes ==
    \E sizeX \in CubesChunk .. (CubesChunk + MaxExtraSlabs),
       seed \in 0 .. MaxSeed, threshold \in Thresholds,
       orientation \in Orientations, workers \in 1 .. MaxWorkers :
        \E c \in {VolumeArray(sizeX, 1, 1, 0)} :
            /\ arr = [c EXCEPT !.data =
                         [n \in DOMAIN c.data |-> (n * n + seed) % 3]]
            /\ gin = [kind |-> "isosurfaceCubes", threshold |-> threshold,
                      orientation |-> orientation, workers |-> workers]
            /\ pc = [next |-> -1, thread |-> [w \in 1 .. workers |-> Idle]]
            /\ op = [tVertices |-> [w \in 1 .. workers |-> <<>>],
                     cells |-> [w \in 1 .. workers |-> <<>>]]
            /\ gop = NoOp
            /\ vol = NoOp
            /\ geo = NoGeo
            /\ dvField = NoDist

\* a thread takes the next chunk of values of i
TakeSlabs(w) ==
    /\ gop.kind = "none"
    /\ pc.thread[w].phase = "idle"
    /\ pc.next < arr.sizeX
    /\ LET hi == IF pc.next + CubesChunk < arr.sizeX
                 THEN pc.next + CubesChunk ELSE arr.sizeX
       IN  pc' = [next |-> hi,
                  thread |-> [pc.thread EXCEPT ![w] =
                                 [phase |-> "cubes", i |-> pc.next,
                                  hi |-> hi, j |-> -1, k |-> -1]]]
    /\ UNCHANGED <<vol, arr, op, geoVars, dvField>>

\* the thread's position after the cell at t.i, t.j, t.k
NextCell(c, t) ==
    IF t.k + 1 < c.sizeZ THEN [t EXCEPT !.k = t.k + 1]
    ELSE IF t.j + 1 < c.sizeY THEN [t EXCEPT !.j = t.j + 1, !.k = -1]
    ELSE IF t.i + 1 < t.hi THEN [t EXCEPT !.i = t.i + 1, !.j = -1, !.k = -1]
    ELSE Idle

threadBufferFirst(w) == 1

\* tVertices[omp_get_thread_num()]
threadBuffer(w) == w

\* one pass of the loop body by thread w
CubeStep(w) ==
    LET t == pc.thread[w]
    IN  /\ t.phase = "cubes"
        /\ op' = [tVertices |->
                      [op.tVertices EXCEPT ![threadBuffer(w)] =
                          isoFromCube(@, arr, t.i, t.j, t.k, gin.threshold,
                                      gin.orientation)],
                  cells |-> [op.cells EXCEPT ![w] =
                                Append(@, Pos(t.i, t.j, t.k))]]
        /\ pc' = [pc EXCEPT !.thread[w] = NextCell(arr, t)]
        /\ UNCHANGED <<vol, arr, geoVars, dvField>>

\* after the parallel region: the buffers are put together and returned
Collect ==
    /\ gop.kind = "none"
    /\ pc.next = arr.sizeX
    /\ \A w \in 1 .. gin.workers : pc.thread[w].phase = "idle"
    /\ gop' = [kind |-> "isosurfaceCubes",
               retval |-> insertBuffers(<<>>, op.tVertices, 1)]
    /\ UNCHANGED <<vol, arr, op, geo, gin, distVars>>

NextCubes ==
    \/ \E w \in 1 .. gin.workers : TakeSlabs(w)
    \/ \E w \in 1 .. gin.workers : CubeStep(w)
    \/ Collect

SpecCubes == InitCubes /\ [][NextCubes]_vars

(***************************************************************************)
(* Claims about isosurfaceCubes, checked under SpecCubes.                  *)
(***************************************************************************)
\* the number of passes of the loop body made for the cell v so far
CellPasses(v) ==
    Cardinality({<<w, n>> \in (1 .. gin.workers) \X (1 .. Len(CubeCells(arr))) :
                    n <= Len(op.cells[w]) /\ op.cells[w][n] = v})

\* the members of the sequence w
ListMembers(w) == {w[n] : n \in 1 .. Len(w)}

\* C16: for every number of threads and every assignment of the values of
\* i to threads, a thread's buffer holds exactly the triangles of the cells
\* that thread processed, in the order it processed them; no cell of the
\* extended grid is processed twice and, when the loop is over, every cell
\* was processed once; the returned list is the buffers one after another
\* in thread order, and holds every triangle of the single-thread result as
\* often as that result does.
C16_CubesPerWorker ==
    /\ \A w \in 1 .. gin.workers :
          op.tVertices[w]
          = isoFromCubes(<<>>, arr, op.cells[w], 1, gin.threshold,
                         gin.orientation)
    /\ \A n \in 1 .. Len(CubeCells(arr)) : CellPasses(CubeCells(arr)[n]) <= 1
    /\ gop.kind = "isosurfaceCubes" =>
          /\ \A n \in 1 .. Len(CubeCells(arr)) :
                CellPasses(CubeCells(arr)[n]) = 1
          /\ \A w \in 1 .. gin.workers :
                ListMembers(op.cells[w]) \subseteq ListMembers(CubeCells(arr))
          /\ gop.retval = insertBuffers(<<>>, op.tVertices, 1)
          /\ Len(gop.retval)
             = Len(isosurfaceCubes(arr, gin.threshold, gin.orientation))
          /\ \A v \in ListMembers(gop.retval)
                      \cup ListMembers(isosurfaceCubes(arr, gin.threshold,
                                                       gin.orientation)) :
                Occurrences(gop.retval, v)
                = Occurrences(isosurfaceCubes(arr, gin.threshold,
                                              gin.orientation), v)

\* the loop is over, two threads each processed cells and pushed
\* triangles, and the returned list differs from the single-thread one
C16_Witness ==
    /\ gop.kind = "isosurfaceCubes"
    /\ gin.workers >= 2
    /\ op.tVertices[1] # <<>>
    /\ op.tVertices[2] # <<>>
    /\ \E n \in 1 .. Len(op.tVertices[2]) : op.tVertices[2][n].tri = 2
    /\ gop.retval # isosurfaceCubes(arr, gin.threshold, gin.orientation)

(***************************************************************************)
(* ScalarField_t::interpolate and ScalarField_t::isoFromTetrahedron, for   *)
(* an integer Value_t.  A case of isoFromTetrahedron is written as the     *)
(* corners its TO_MIN condition tests with > (the others it tests with     *)
(* <=), the corners its TO_MAX condition tests with >, and the corner      *)
(* pairs of its interpolate calls in the order of the calls; corners are   *)
(* numbered 0 .. 3 as value0 .. value3.                                    *)
(***************************************************************************)
\* the alphas with the quotient given to the other endpoint
interpolateAlphasExchanged(value1, value2, midval) ==
    IF value1 > value2
    THEN [alpha2 |-> FDiv(FSub(FInt(midval), FInt(value2)),
                          FSub(FInt(value1), FInt(value2))),
          alpha1 |-> FSub(FInt(1),
                          FDiv(FSub(FInt(midval), FInt(value2)),
                               FSub(FInt(value1), FInt(value2)))),
          quotient |-> 1]
    ELSE [alpha2 |-> FSub(FInt(1),
                          FDiv(FSub(FInt(midval), FInt(value1)),
                               FSub(FInt(value2), FInt(value1)))),
          alpha1 |-> FDiv(FSub(FInt(midval), FInt(value1)),
                          FSub(FInt(value2), FInt(value1))),
          quotient |-> 2]

\* alpha1, alpha2, and the endpoint (1 or 2) whose alpha is the quotient
interpolateAlphas(value1, value2, midval) ==
    IF value1 > value2
    THEN [alpha1 |-> FDiv(FSub(FInt(midval), FInt(value2)),
                          FSub(FInt(value1), FInt(value2))),
          alpha2 |-> FSub(FInt(1),
                          FDiv(FSub(FInt(midval), FInt(value2)),
                               FSub(FInt(value1), FInt(value2)))),
          quotient |-> 1]
    ELSE [alpha1 |-> FSub(FInt(1),
                          FDiv(FSub(FInt(midval), FInt(value1)),
                               FSub(FInt(value2), FInt(value1)))),
          alpha2 |-> FDiv(FSub(FInt(midval), FInt(value1)),
                          FSub(FInt(value2), FInt(value1))),
          quotient |-> 2]

\* p1 * alpha1 + p2 * alpha2 on one axis
interpolateAxis(x1, x2, alphas) ==
    FAdd(FMul(x1, alphas.alpha1), FMul(x2, alphas.alpha2))

\* interpolate( p1, value1, p2, value2, midval ), value1 # value2
interpolate(p1, value1, p2, value2, midval) ==
    FPos(interpolateAxis(p1.x, p2.x, interpolateAlphas(value1, value2, midval)),
         interpolateAxis(p1.y, p2.y, interpolateAlphas(value1, value2, midval)),
         interpolateAxis(p1.z, p2.z, interpolateAlphas(value1, value2, midval)))

TetraCase(toMin, toMax, calls) ==
    [toMin |-> toMin, toMax |-> toMax, calls |-> calls]

\* the fourteen cases after the early return, in the order of the code
TetraCases ==
    <<TetraCase({0}, {1, 2, 3}, <<<<1, 0>>, <<2, 0>>, <<3, 0>>>>),
      TetraCase({1}, {0, 2, 3}, <<<<2, 1>>, <<0, 1>>, <<3, 1>>>>),
      TetraCase({0, 1}, {2, 3}, <<<<1, 2>>, <<0, 2>>, <<1, 3>>,
                                  <<1, 3>>, <<0, 2>>, <<0, 3>>>>),
      TetraCase({2}, {0, 1, 3}, <<<<1, 2>>, <<3, 2>>, <<0, 2>>>>),
      TetraCase({0, 2}, {1, 3}, <<<<0, 1>>, <<1, 2>>, <<2, 3>>,
                                  <<2, 3>>, <<0, 3>>, <<0, 1>>>>),
      TetraCase({1, 2}, {0, 3}, <<<<0, 2>>, <<0, 1>>, <<1, 3>>,
                                  <<0, 2>>, <<1, 3>>, <<2, 3>>>>),
      TetraCase({0, 1, 2}, {3}, <<<<2, 3>>, <<0, 3>>, <<1, 3>>>>),
      TetraCase({3}, {0, 1, 2}, <<<<2, 3>>, <<1, 3>>, <<0, 3>>>>),
      TetraCase({0, 3}, {1, 2}, <<<<0, 1>>, <<0, 2>>, <<1, 3>>,
                                  <<1, 3>>, <<0, 2>>, <<2, 3>>>>),
      TetraCase({1, 3}, {0, 2}, <<<<1, 2>>, <<0, 1>>, <<2, 3>>,
                                  <<0, 3>>, <<2, 3>>, <<0, 1>>>>),
      TetraCase({0, 1, 3}, {2}, <<<<3, 2>>, <<1, 2>>, <<0, 2>>>>),
      TetraCase({2, 3}, {0, 1}, <<<<0, 2>>, <<1, 2>>, <<1, 3>>,
                                  <<0, 2>>, <<1, 3>>, <<0, 3>>>>),
      TetraCase({0, 2, 3}, {1}, <<<<0, 1>>, <<2, 1>>, <<3, 1>>>>),
      TetraCase({1, 2, 3}, {0}, <<<<2, 0>>, <<1, 0>>, <<3, 0>>>>)>>

cornersAboveOrAt(values, threshold) ==
    {n \in 0 .. 3 : values[n + 1] >= threshold}

\* the corners whose value is > threshold; values[n + 1] is value n
cornersAbove(values, threshold) == {n \in 0 .. 3 : values[n + 1] > threshold}

\* the condition of a case
caseFiresEither(case, values, threshold, orientation) ==
    \/ cornersAbove(values, threshold) = case.toMin
    \/ cornersAbove(values, threshold) = case.toMax

caseFires(case, values, threshold, orientation) ==
    \/ cornersAbove(values, threshold) = case.toMin /\ orientation = TO_MIN
    \/ cornersAbove(values, threshold) = case.toMax /\ orientation = TO_MAX

\* the early return of case 0000, 1111
tetraReturns(values, threshold) ==
    cornersAbove(values, threshold) \in {{}, {0, 1, 2, 3}}

\* the cases that fire, as their numbers in TetraCases
casesFired(values, threshold, orientation) ==
    IF tetraReturns(values, threshold) THEN {}
    ELSE {n \in 1 .. Len(TetraCases) :
             caseFires(TetraCases[n], values, threshold, orientation)}

\* the interpolate calls made after case n - 1, as corner pairs
RECURSIVE tetraCalls(_, _, _, _)
tetraCalls(n, values, threshold, orientation) ==
    IF n > Len(TetraCases) THEN <<>>
    ELSE (IF n \in casesFired(values, threshold, orientation)
          THEN TetraCases[n].calls ELSE <<>>)
         \o tetraCalls(n + 1, values, threshold, orientation)

\* isoFromTetrahedron: retval after the call; vertices[n + 1] is vx n
isoFromTetrahedron(retval, vertices, values, threshold, orientation) ==
    retval
    \o [m \in 1 .. Len(tetraCalls(1, values, threshold, orientation)) |->
           interpolate(
               vertices[tetraCalls(1, values, threshold, orientation)[m][1] + 1],
               values[tetraCalls(1, values, threshold, orientation)[m][1] + 1],
               vertices[tetraCalls(1, values, threshold, orientation)[m][2] + 1],
               values[tetraCalls(1, values, threshold, orientation)[m][2] + 1],
               threshold)]

(***************************************************************************)
(* SpecTetra: one call of isoFromTetrahedron on an empty list, or one call *)
(* of interpolate and one with its two endpoints exchanged.  gin holds the *)
(* arguments; gop records the call: for isoFromTetrahedron the cases that  *)
(* fired, the corner pairs of its interpolate calls and the list, for      *)
(* interpolate the alphas, the result and the result of the exchanged      *)
(* call.                                                                   *)
(***************************************************************************)
\* the corners of a tetrahedron of the cell at the origin
TetraVertices ==
    <<FPos(FInt(0), FInt(0), FInt(0)), FPos(FInt(1), FInt(0), FInt(0)),
      FPos(FInt(1), FInt(1), FInt(0)), FPos(FInt(1), FInt(1), FInt(1))>>

\* the largest of the values given to interpolate
MaxMidval == 3

InitTetra ==
    /\ \/ \E values \in [1 .. 4 -> FieldValues], threshold \in FieldValues,
             orientation \in Orientations :
              gin = [kind |-> "tetrahedron", vertices |-> TetraVertices,
                     values |-> values, threshold |-> threshold,
                     orientation |-> orientation]
       \/ \E a \in 1 .. 4, b \in 1 .. 4, value1 \in 0 .. MaxMidval,
             value2 \in 0 .. MaxMidval, midval \in -1 .. (MaxMidval + 1) :
              /\ value1 # value2
              /\ gin = [kind |-> "interpolate", p1 |-> TetraVertices[a],
                        value1 |-> value1, p2 |-> TetraVertices[b],
                        value2 |-> value2, midval |-> midval]
    /\ gop = NoOp
    /\ geo = NoGeo
    /\ vol = NoOp
    /\ arr = NoOp
    /\ op = NoOp
    /\ dvField = NoDist
    /\ pc = NoDist

IsoFromTetrahedron ==
    /\ gin.kind = "tetrahedron" /\ gop.kind = "none"
    /\ gop' = [kind |-> "isoFromTetrahedron",
               fired |-> casesFired(gin.values, gin.threshold,
                                    gin.orientation),
               calls |-> tetraCalls(1, gin.values, gin.threshold,
                                    gin.orientation),
               retval |-> isoFromTetrahedron(<<>>, gin.vertices, gin.values,
                                             gin.threshold, gin.orientation)]
    /\ UNCHANGED <<geo, gin, volVars, distVars>>

Interpolate ==
    /\ gin.kind = "interpolate" /\ gop.kind = "none"
    /\ gop' = [kind |-> "interpolate",
               alphas |-> interpolateAlphas(gin.value1, gin.value2,
                                            gin.midval),
               res |-> interpolate(gin.p1, gin.value1, gin.p2, gin.value2,
                                   gin.midval),
               exchanged |-> interpolate(gin.p2, gin.value2, gin.p1,
                                         gin.value1, gin.midval)]
    /\ UNCHANGED <<geo, gin, volVars, distVars>>

NextTetra == IsoFromTetrahedron \/ Interpolate

SpecTetra == InitTetra /\ [][NextTetra]_vars

(***************************************************************************)
(* Claims about isoFromTetrahedron and interpolate, checked under          *)
(* SpecTetra.                                                              *)
(***************************************************************************)
\* the number of corners of the call whose value is above the threshold
AboveCount ==
    Cardinality({n \in 1 .. 4 : gin.values[n] > gin.threshold})

\* C21: for every sign code of the four corners and each orientation at
\* most one case fires; with no or four corners above the threshold
\* nothing is pushed, with one or three corners above one triangle, with
\* two corners above two triangles; the TO_MAX condition of every case is
\* the complement of its TO_MIN condition, and the number of points pushed
\* is a multiple of three.
C21_TetraCases ==
    /\ \A n \in 1 .. Len(TetraCases) :
          TetraCases[n].toMax = (0 .. 3) \ TetraCases[n].toMin
    /\ gop.kind = "isoFromTetrahedron" =>
          /\ Cardinality(gop.fired) <= 1
          /\ AboveCount \in {0, 4} => Len(gop.retval) = 0
          /\ AboveCount \in {1, 3} => Len(gop.retval) = 3
          /\ AboveCount = 2 => Len(gop.retval) = 6
          /\ Len(gop.retval) % 3 = 0

\* a call with two corners above, orientation TO_MAX, that pushed two
\* triangles
C21_Witness ==
    /\ gop.kind = "isoFromTetrahedron"
    /\ gin.orientation = TO_MAX
    /\ AboveCount = 2
    /\ Cardinality(gop.fired) = 1
    /\ Len(gop.retval) = 6

\* the endpoint of interpolate's line at the exact fraction
\* ( midval - value1 ) / ( value2 - value1 ) from p1, on one axis
OnLine(x1, x2, value1, value2, midval) ==
    RAdd(x1.q, RMul(RSub(x2.q, x1.q),
                    Rat(midval - value1, value2 - value1)))

\* the exact value of c lies between those of a and b
Between(a, b, c) ==
    \/ RLeq(a.q, c.q) /\ RLeq(c.q, b.q)
    \/ RLeq(b.q, c.q) /\ RLeq(c.q, a.q)

\* C22: for value1 # value2 interpolate returns the point of the line
\* through p1 and p2 where the linearly interpolated value is midval; the
\* alpha computed as a quotient is that of the endpoint with the larger
\* value; exchanging the endpoints gives the same result; the result is p1
\* for midval = value1, p2 for midval = value2, and lies between p1 and p2
\* when midval lies between value1 and value2.
C22_Interpolate ==
    gop.kind = "interpolate" =>
        /\ gop.res.x.q = OnLine(gin.p1.x, gin.p2.x, gin.value1, gin.value2,
                                gin.midval)
        /\ gop.res.y.q = OnLine(gin.p1.y, gin.p2.y, gin.value1, gin.value2,
                                gin.midval)
        /\ gop.res.z.q = OnLine(gin.p1.z, gin.p2.z, gin.value1, gin.value2,
                                gin.midval)
        /\ gop.alphas.quotient = 1 => gin.value1 > gin.value2
        /\ gop.alphas.quotient = 2 => gin.value2 > gin.value1
        /\ gop.res = gop.exchanged
        /\ gin.midval = gin.value1 => gop.res = gin.p1
        /\ gin.midval = gin.value2 => gop.res = gin.p2
        /\ (gin.value1 <= gin.midval /\ gin.midval <= gin.value2)
           \/ (gin.value2 <= gin.midval /\ gin.midval <= gin.value1)
           => /\ Between(gin.p1.x, gin.p2.x, gop.res.x)
              /\ Between(gin.p1.y, gin.p2.y, gop.res.y)
              /\ Between(gin.p1.z, gin.p2.z, gop.res.z)

\* a call with different endpoints, value1 below value2 and midval strictly
\* between them, whose alphas are not doubles exactly
C22_Witness ==
    /\ gop.kind = "interpolate"
    /\ gin.p1 # gin.p2
    /\ gin.value1 < gin.midval /\ gin.midval < gin.value2
    /\ gop.alphas.alpha2.x
    /\ gop.res # gin.p1 /\ gop.res # gin.p2

\* C28: every interpolate call of isoFromTetrahedron joins a corner whose
\* value is above the threshold with one whose value is not, so the two
\* values differ and interpolate does not divide by zero.
C28_TetraCallsCross ==
    gop.kind = "isoFromTetrahedron" =>
        \A m \in 1 .. Len(gop.calls) :
            /\ (gin.values[gop.calls[m][1] + 1] > gin.threshold)
               # (gin.values[gop.calls[m][2] + 1] > gin.threshold)
            /\ gin.values[gop.calls[m][1] + 1]
               # gin.values[gop.calls[m][2] + 1]

\* a call with three corners above that made three interpolate calls
C28_Witness ==
    /\ gop.kind = "isoFromTetrahedron"
    /\ AboveCount = 3
    /\ Len(gop.calls) = 3

(***************************************************************************)
(* Claims about the propagation of the distance vectors, checked under     *)
(* SpecDist.                                                               *)
(***************************************************************************)
GridPositions(v) ==
    {Pos(i, j, k) : i \in 0 .. (v.sizeX - 1), j \in 0 .. (v.sizeY - 1),
                    k \in 0 .. (v.sizeZ - 1)}

VectorAt(field, p) == VolumeGet(field, p.x, p.y, p.z)

\* the neighbour's vector plus the unit step, component by component
Stepped(neighbour, step) ==
    DistVector_s(FloatOf(FAdd(neighbour.distX, step.distX)),
                 FloatOf(FAdd(neighbour.distY, step.distY)),
                 FloatOf(FAdd(neighbour.distZ, step.distZ)))

\* the smaller by squared norm of the current vector and the neighbour's
\* vector plus the unit step, the current one on a tie; the squared norms
\* are the float sums of squares the constructor compares
SmallerVector(current, neighbour, step) ==
    IF RLess(SqrNorm(Stepped(neighbour, step)).q, SqrNorm(current).q)
    THEN Stepped(neighbour, step)
    ELSE current

\* C23: throughout the two Z passes every update of a voxel's distance
\* vector replaces it by the smaller, by squared Euclidean norm, of the
\* current vector and the neighbour's vector plus one unit step, and keeps
\* the current one on a tie; no other voxel changes, no voxel's squared norm
\* increases from one step to the next, and the feature voxels keep the zero
\* vector.
C23_MinimalVector ==
    [][/\ (pc.kind = "scan" /\ pc.todo # <<>>) =>
             /\ VectorAt(dvField', Head(pc.todo).t) =
                    SmallerVector(VectorAt(dvField, Head(pc.todo).t),
                                  VectorAt(dvField, Head(pc.todo).s),
                                  Head(pc.todo).step)
             /\ \A p \in GridPositions(dvField) \ {Head(pc.todo).t} :
                    VectorAt(dvField', p) = VectorAt(dvField, p)
             /\ Head(pc.todo).step \in
                    {DistVector_s(FInt(1), FInt(0), FInt(0)),
                     DistVector_s(FInt(0), FInt(1), FInt(0)),
                     DistVector_s(FInt(0), FInt(0), FInt(1))}
             /\ \A p \in gin.features :
                    VectorAt(dvField', p) =
                        DistVector_s(FInt(0), FInt(0), FInt(0))
       /\ \A p \in GridPositions(dvField) :
             RLeq(SqrNorm(VectorAt(dvField', p)).q,
                  SqrNorm(VectorAt(dvField, p)).q)]_vars

\* in the middle of the Z passes a voxel that is no feature voxel holds a
\* propagated vector, and another one still holds the initial vector
C23_Witness ==
    /\ pc.kind = "scan" /\ pc.todo # <<>>
    /\ gin.features # {}
    /\ \E p \in GridPositions(dvField) \ gin.features :
          /\ VectorAt(dvField, p) # dvField.initValue
          /\ RLess(SqrNorm(VectorAt(dvField, p)).q,
                   SqrNorm(dvField.initValue).q)
    /\ \E p \in GridPositions(dvField) \ gin.features :
          VectorAt(dvField, p) = dvField.initValue

\* the squared grid distance from p to the nearest feature voxel
NearestSquared(features, p) ==
    CHOOSE d \in {(p.x - f.x) * (p.x - f.x) + (p.y - f.y) * (p.y - f.y)
                  + (p.z - f.z) * (p.z - f.z) : f \in features} :
        \A f \in features :
            d <= (p.x - f.x) * (p.x - f.x) + (p.y - f.y) * (p.y - f.y)
                 + (p.z - f.z) * (p.z - f.z)

\* min( initValue, voxelSize * distance to the nearest feature ), squared
LowerBoundSquared(initValue, voxelSize, features, p) ==
    IF RLess(RMul(RMul(voxelSize.q, voxelSize.q),
                  RInt(NearestSquared(features, p))),
             RMul(initValue.q, initValue.q))
    THEN RMul(RMul(voxelSize.q, voxelSize.q),
              RInt(NearestSquared(features, p)))
    ELSE RMul(initValue.q, initValue.q)

\* C27: the distance transform never underestimates: for a bitfield with at
\* least one feature voxel, after construction every voxel's stored
\* distance is at least min(initValue, voxelSize times the exact Euclidean
\* distance to the nearest feature voxel), and it is 0 exactly at the
\* feature voxels.
C27_NeverUnderestimates ==
    (pc.kind = "done" /\ gin.features # {}) =>
        \A p \in GridPositions(vol) :
            /\ RLeq(LowerBoundSquared(gin.initValue, geo.voxelSize,
                                      gin.features, p),
                    VolumeGet(vol, p.x, p.y, p.z).q)
            /\ (VolumeGet(vol, p.x, p.y, p.z).q = RInt(0)) <=>
                   (p \in gin.features)

\* a finished map where one voxel off the features holds a distance below
\* initValue and another one holds initValue
C27_Witness ==
    /\ pc.kind = "done" /\ gin.features # {}
    /\ \E p \in GridPositions(vol) \ gin.features :
          RLess(VolumeGet(vol, p.x, p.y, p.z).q,
                RMul(gin.initValue.q, gin.initValue.q))
    /\ \E p \in GridPositions(vol) \ gin.features :
          VolumeGet(vol, p.x, p.y, p.z).q =
              RMul(gin.initValue.q, gin.initValue.q)

(***************************************************************************)
(* Claims about the shape of the octree and the descent of get and set,    *)
(* checked under SpecVol.                                                  *)
(***************************************************************************)
\* the corner of octant o of the cube of edge size at (x, y, z)
OctantCorner(o, size, x, y, z) ==
    Pos(IF HasX(o) THEN x + Half(size) ELSE x,
        IF HasY(o) THEN y + Half(size) ELSE y,
        IF HasZ(o) THEN z + Half(size) ELSE z)

\* the tree with the fewest nodes that holds the contents of the dense
\* array a in the cube of edge size at (x, y, z): a Solid node where the
\* cube is uniform, a Gray node over the eight octants where it is not
RECURSIVE CanonicalNode(_, _, _, _, _)
CanonicalNode(a, size, x, y, z) ==
    IF size = 1 \/ BlockUniform(a, [s |-> size, x |-> x, y |-> y, z |-> z])
    THEN Solid(ArrayGet(a, x, y, z))
    ELSE Gray([o \in 0 .. 7 |->
                  CanonicalNode(a, Half(size),
                                OctantCorner(o, size, x, y, z).x,
                                OctantCorner(o, size, x, y, z).y,
                                OctantCorner(o, size, x, y, z).z)])

\* C24: the octree is canonical: its shape, and with it nodeCount() and
\* memUsed(), depends only on the current voxel contents, not on the order
\* or history of the sets that produced them; with every voxel back at
\* initValue the tree is a single Solid root.
C24_CanonicalTree ==
    /\ vol.root = CanonicalNode(arr, vol.rootSize, 0, 0, 0)
    /\ nodeCount(vol) = NodeCount(CanonicalNode(arr, vol.rootSize, 0, 0, 0))
    /\ (\A n \in DOMAIN arr.data : arr.data[n] = arr.initValue) =>
           (vol.root = Solid(vol.initValue) /\ nodeCount(vol) = 1)

\* a set of initValue that took a split tree back to the single Solid root
C24_Witness ==
    /\ op.kind = "set" /\ ~ op.out
    /\ op.value = vol.initValue
    /\ op.before > 1
    /\ vol.root = Solid(vol.initValue)

\* the assertion of findOctant
findOctantAssert(nodeSize, pos) ==
    pos.x < nodeSize /\ pos.y < nodeSize /\ pos.z < nodeSize

\* the nodes Node_s::get visits, from this node down
RECURSIVE getSteps(_, _, _)
getSteps(node, nodeSize, pos) ==
    <<[nodeSize |-> nodeSize, pos |-> pos, type |-> node.type]>>
    \o (IF node.type = "SOLID" THEN <<>>
        ELSE getSteps(node.subnodes[findOctant(nodeSize, pos)],
                      Half(nodeSize),
                      toOctant(findOctant(nodeSize, pos), nodeSize, pos)))

\* the nodes Node_s::set visits, from this node down; type is the node's
\* type when findOctant is called on it
RECURSIVE setSteps(_, _, _, _)
setSteps(node, nodeSize, pos, value) ==
    IF node.type = "SOLID" /\ (node.value = value \/ nodeSize = 1)
    THEN <<[nodeSize |-> nodeSize, pos |-> pos, type |-> "SOLID"]>>
    ELSE <<[nodeSize |-> nodeSize, pos |-> pos, type |-> "GRAY"]>>
         \o setSteps(IF node.type = "SOLID" THEN Solid(node.value)
                     ELSE node.subnodes[findOctant(nodeSize, pos)],
                     Half(nodeSize),
                     toOctant(findOctant(nodeSize, pos), nodeSize, pos),
                     value)

\* what the claim says of one descent
DescentInBounds(steps, rootSize) ==
    /\ \A n \in 1 .. Len(steps) :
          /\ steps[n].pos.x \in 0 .. (steps[n].nodeSize - 1)
          /\ steps[n].pos.y \in 0 .. (steps[n].nodeSize - 1)
          /\ steps[n].pos.z \in 0 .. (steps[n].nodeSize - 1)
          /\ steps[n].type = "GRAY" =>
                /\ findOctantAssert(steps[n].nodeSize, steps[n].pos)
                /\ findOctant(steps[n].nodeSize, steps[n].pos) \in 0 .. 7
                /\ steps[n].nodeSize > 1
    /\ Len(steps) - 1 <= CeilLog2(rootSize)
    /\ rootSize = Exp2(CeilLog2(rootSize))

\* C25: for every in-range get and set on an octree of any dimensions, each
\* recursive step reaches a node with 0 <= pos < nodeSize on every axis, so
\* the assertion of findOctant never fires and the octant lies in [0,7]; no
\* Gray node has nodeSize 1; the recursion is at most log2(rootSize) deep.
C25_DescentInBounds ==
    \A i \in 0 .. (vol.sizeX - 1), j \in 0 .. (vol.sizeY - 1),
       k \in 0 .. (vol.sizeZ - 1) :
        /\ DescentInBounds(getSteps(vol.root, vol.rootSize, Pos(i, j, k)),
                           vol.rootSize)
        /\ \A value \in Values :
              DescentInBounds(setSteps(vol.root, vol.rootSize, Pos(i, j, k),
                                       value),
                              vol.rootSize)

\* an octree whose root cube is larger than the grid, split over two levels:
\* a get descends through two Gray nodes to a leaf of size 1
C25_Witness ==
    /\ vol.rootSize > vol.sizeX /\ vol.rootSize >= 4
    /\ \E i \in 0 .. (vol.sizeX - 1), j \in 0 .. (vol.sizeY - 1),
          k \in 0 .. (vol.sizeZ - 1) :
          /\ Len(getSteps(vol.root, vol.rootSize, Pos(i, j, k))) = 3
          /\ getSteps(vol.root, vol.rootSize, Pos(i, j, k))[3].nodeSize = 1
          /\ getSteps(vol.root, vol.rootSize, Pos(i, j, k))[3].pos =
                 Pos(0, 0, 0)
          /\ i > 0

(***************************************************************************)
(* Claim about the order of iterators, checked under SpecIter.             *)
(***************************************************************************)
\* C26: for iterators a and b = a + n that share a single-axis nonzero
\* displacement of either sign, a < b holds exactly when n > 0 and a <= b
\* exactly when n >= 0.
C26_OrderAlongLine ==
    (gop.kind = "less" /\ SingleAxis(gin.a.diff)) =>
        /\ gop.less <=> gin.n > 0
        /\ gop.leq <=> gin.n >= 0

(***************************************************************************)
(* filter into a separate destination, and SpecInplace: the generic        *)
(* filterInplace pass by pass.  arr is the container filtered in place;    *)
(* gin holds the call: the displacement, poss and the container as it was  *)
(* before the call.  pc holds the loop over poss: the line p, the loop the *)
(* line is in, that loop's x, rowSize and the vector 'filtered', and the   *)
(* container as it was when the line started.  gop holds dstVolume after   *)
(* filter( filter, diff, container, dstVolume ) on the container as it was *)
(* before the call.                                                        *)
(***************************************************************************)
\* the largest dimension and number of voxels of the filtered container
MaxInplaceDim == 3

MaxInplaceVoxels == 6

\* the loop of filter over one row, from its pass number x on
RECURSIVE filterRow(_, _, _, _, _, _)
filterRow(c, dstVolume, pos, diff, x, rowSize) ==
    IF x >= rowSize THEN dstVolume
    ELSE filterRow(c,
                   IteratorSetValue(dstVolume,
                                    IteratorPlus(Giterator_t(pos, diff), x),
                                    convolute(c,
                                              IteratorPlus(Giterator_t(pos,
                                                                       diff),
                                                           x),
                                              x, rowSize)),
                   pos, diff, x + 1, rowSize)

\* the loop of filter over poss from line p on.  poss is a std::set there:
\* the lines come in the order of the positions, each once; the container
\* is only read, so the order of the lines does not reach dstVolume
RECURSIVE filterFrom(_, _, _, _, _)
filterFrom(c, dstVolume, poss, diff, p) ==
    IF p > Len(poss) THEN dstVolume
    ELSE filterFrom(c,
                    filterRow(c, dstVolume, poss[p], diff, 0,
                              RowSize(c, poss[p], diff)),
                    poss, diff, p + 1)

\* filter( filter, diff, container, dstVolume )
filter(c, diff, dstVolume) ==
    filterFrom(c, dstVolume, iteratorPositions(c, diff), diff, 1)

InitInplace ==
    \E diff \in UnitDisplacements, seed \in 0 .. MaxSeed,
       sx \in 1 .. MaxInplaceDim, sy \in 1 .. MaxInplaceDim,
       sz \in 1 .. MaxInplaceDim :
        /\ sx * sy * sz <= MaxInplaceVoxels
        /\ \E c \in {VolumeArray(sx, sy, sz, 0)} :
              \E filled \in {[c EXCEPT !.data =
                                 [n \in DOMAIN c.data |->
                                     (n * n + seed) % 3]]} :
                 /\ arr = filled
                 /\ gin = [kind |-> "inplace", diff |-> diff,
                           poss |-> iteratorPositions(filled, diff),
                           before |-> filled]
                 /\ pc = [phase |-> "line", p |-> 1]
        /\ gop = NoOp
        /\ vol = NoOp
        /\ op = NoOp
        /\ geo = NoGeo
        /\ dvField = NoDist

\* the head of one pass of the loop over poss: sit, send, rowSize and the
\* vector 'filtered'; with rowSize = 0 neither loop has a pass
StartOfLine ==
    /\ gin.kind = "inplace" /\ pc.phase = "line"
    /\ pc.p <= Len(gin.poss)
    /\ \E rowSize \in {RowSize(arr, gin.poss[pc.p], gin.diff)} :
          pc' = IF rowSize = 0 THEN [phase |-> "line", p |-> pc.p + 1]
                ELSE [phase |-> "filter", p |-> pc.p, x |-> 0,
                      rowSize |-> rowSize, filtered |-> <<>>,
                      start |-> arr]
    /\ UNCHANGED <<volVars, geoVars, dvField>>

\* what the first loop does to the container with a filtered value that
\* replaces the source value at once
lineStoreInplace(c, it, value) == IteratorSetValue(c, it, value)

\* what the first loop does to the container: *dit = ... stores into the
\* vector 'filtered'
lineStore(c, it, value) == c

\* one pass of the first loop; after the last one dit = filtered.begin()
\* and sit.pos = pos
FirstLoop ==
    /\ gin.kind = "inplace" /\ pc.phase = "filter"
    /\ \E sit \in {IteratorPlus(Giterator_t(gin.poss[pc.p], gin.diff), pc.x)} :
          \E value \in {convolute(arr, sit, pc.x, pc.rowSize)} :
             /\ arr' = lineStore(arr, sit, value)
             /\ pc' = [pc EXCEPT
                          !.filtered = Append(@, value),
                          !.x = IF pc.x + 1 < pc.rowSize THEN pc.x + 1 ELSE 0,
                          !.phase = IF pc.x + 1 < pc.rowSize THEN "filter"
                                    ELSE "write"]
    /\ UNCHANGED <<vol, op, geoVars, dvField>>

\* one pass of the second loop: sit.setValue( *dit )
SecondLoop ==
    /\ gin.kind = "inplace" /\ pc.phase = "write"
    /\ arr' = IteratorSetValue(arr,
                               IteratorPlus(Giterator_t(gin.poss[pc.p],
                                                        gin.diff), pc.x),
                               pc.filtered[pc.x + 1])
    /\ pc' = IF pc.x + 1 < pc.rowSize THEN [pc EXCEPT !.x = pc.x + 1]
             ELSE [phase |-> "line", p |-> pc.p + 1]
    /\ UNCHANGED <<vol, op, geoVars, dvField>>

\* filter on the container as it was, into a destination of its dimensions
Filter ==
    /\ gin.kind = "inplace" /\ pc.phase = "line"
    /\ pc.p > Len(gin.poss)
    /\ gop.kind = "none"
    /\ gop' = [kind |-> "filter",
               dstVolume |-> filter(gin.before, gin.diff,
                                    VolumeArray(arr.sizeX, arr.sizeY,
                                                arr.sizeZ, 0))]
    /\ UNCHANGED <<volVars, geo, gin, distVars>>

NextInplace == StartOfLine \/ FirstLoop \/ SecondLoop \/ Filter

SpecInplace == InitInplace /\ [][NextInplace]_vars

\* the cell of voxel x of the line that starts at pos
LineCell(c, pos, diff, x) ==
    ArrayIndex(c, pos.x + x * diff.x, pos.y + x * diff.y, pos.z + x * diff.z)

\* the cells of the voxels the pass over the line at pos processes
LineCells(c, pos, diff) ==
    {LineCell(c, pos, diff, x) : x \in 0 .. (RowSize(c, pos, diff) - 1)}

\* the cells of the lines of the whole call
PassCells(c, poss, diff) ==
    UNION {LineCells(c, poss[p], diff) : p \in 1 .. Len(poss)}

\* the filtered value of voxel x of line p, from the container as it was
\* before the call
SourceValue(p, x) ==
    convolute(gin.before,
              IteratorPlus(Giterator_t(gin.poss[p], gin.diff), x), x,
              RowSize(gin.before, gin.poss[p], gin.diff))

\* C29: filterInplace processes each line in two phases: the filtered
\* values of a line are all computed from the line's unmodified source
\* values into the vector 'filtered' while the container stays as it was,
\* and are written back after that; during the write-back the voxels off
\* the line stay as they were when the line started; after the call the
\* container holds, on every voxel of the lines of the pass, what filter
\* writes into a separate destination, and for a pass along an axis the
\* two containers are equal.
C29_TwoPhase ==
    /\ (gin.kind = "inplace" /\ pc.phase \in {"filter", "write"}) =>
          /\ pc.rowSize = RowSize(gin.before, gin.poss[pc.p], gin.diff)
          /\ \A n \in 1 .. Len(pc.filtered) :
                pc.filtered[n] = SourceValue(pc.p, n - 1)
          /\ \A n \in LineCells(arr, gin.poss[pc.p], gin.diff) :
                pc.start.data[n] = gin.before.data[n]
          /\ \A n \in DOMAIN arr.data :
                n \notin LineCells(arr, gin.poss[pc.p], gin.diff) =>
                    arr.data[n] = pc.start.data[n]
    /\ (gin.kind = "inplace" /\ pc.phase = "filter") =>
          /\ arr = pc.start
          /\ Len(pc.filtered) = pc.x
    /\ (gin.kind = "inplace" /\ pc.phase = "write") =>
          /\ Len(pc.filtered) = pc.rowSize
          /\ \A x \in 0 .. (pc.rowSize - 1) :
                arr.data[LineCell(arr, gin.poss[pc.p], gin.diff, x)] =
                    IF x < pc.x THEN pc.filtered[x + 1]
                    ELSE pc.start.data[LineCell(arr, gin.poss[pc.p],
                                                gin.diff, x)]
    /\ (gin.kind = "inplace" /\ gop.kind = "filter") =>
          /\ \A n \in PassCells(gin.before, gin.poss, gin.diff) :
                arr.data[n] = gop.dstVolume.data[n]
          /\ \A n \in DOMAIN arr.data :
                n \notin PassCells(gin.before, gin.poss, gin.diff) =>
                    (arr.data[n] = gin.before.data[n]
                     /\ gop.dstVolume.data[n] = 0)
          /\ (gin.diff.x > 0 \/ gin.diff.y > 0 \/ gin.diff.z > 0) =>
                arr = gop.dstVolume

\* a finished pass over two lines of three voxels along y whose result
\* differs from the source, compared with filter into a destination
C29_Witness ==
    /\ gin.kind = "inplace" /\ gop.kind = "filter"
    /\ gin.diff = Displacement_s(0, 1, 0)
    /\ arr.sizeY = 3 /\ Len(gin.poss) = 2
    /\ arr = gop.dstVolume
    /\ \E n \in DOMAIN arr.data : arr.data[n] # gin.before.data[n]
    /\ \E n \in DOMAIN arr.data : arr.data[n] # 0

(***************************************************************************)
(* removeIsolatedVertices( imesh ), and SpecIsolated.  gin holds imesh: a  *)
(* mesh with vertices, texture coordinates and faces of six indices, the   *)
(* texture indices 0 as Face( a, b, c ) leaves them when the mesh has no   *)
(* texture coordinates.  gop holds the mesh returned.  Indices count from  *)
(* 0, sequences from 1.  A std::map is a function on its keys.             *)
(***************************************************************************)
\* the largest numbers of vertices, texture coordinates and faces of imesh
MaxIsoVertices == 3

MaxIsoTCoords == 2

MaxIsoFaces == 2

\* faces.emplace_back(a, b, c, ta, tb, tc)
addFaceTextured(m, a, b, c, ta, tb, tc) ==
    [m EXCEPT !.faces = Append(@, [a |-> a, b |-> b, c |-> c,
                                   ta |-> ta, tb |-> tb, tc |-> tc])]

\* std::map::insert( make_pair( key, value ) ): an existing key keeps its
\* value
MapInsert(map, key, value) ==
    IF key \in DOMAIN map THEN map
    ELSE [q \in DOMAIN map \cup {key} |-> IF q = key THEN value ELSE map[q]]

\* if ( vit == vertexMap.end() ) { push_back; insert }
cornerVertex(st, imesh, v) ==
    IF v \in DOMAIN st.vertexMap THEN st
    ELSE [st EXCEPT
             !.mesh.vertices = Append(@, imesh.vertices[v + 1]),
             !.vertexMap = MapInsert(@, v, Len(st.mesh.vertices))]

\* if ( tit == tCoordsMap.end() ) { push_back; insert }: the vertex of
\* index t is pushed to tCoords and the pair is inserted into vertexMap
cornerTCoord(st, imesh, t) ==
    IF t \in DOMAIN st.tCoordsMap THEN st
    ELSE [st EXCEPT
             !.mesh.tCoords = Append(@, imesh.vertices[t + 1]),
             !.vertexMap = MapInsert(@, t, Len(st.mesh.tCoords))]

\* tit->second: tit points into tCoordsMap when the key was found there and
\* into vertexMap, where insert left it, when it was not
titSecond(st, after, t) ==
    IF t \in DOMAIN st.tCoordsMap THEN st.tCoordsMap[t]
    ELSE after.vertexMap[t]

\* one pass of the loop over the corners of a face: the state after it with
\* vindices[i] and tindices[i] appended
corner(st, imesh, v, t) ==
    [state |-> cornerTCoord(cornerVertex(st.state, imesh, v), imesh, t),
     vindices |-> Append(st.vindices,
                         cornerVertex(st.state, imesh, v).vertexMap[v]),
     tindices |-> Append(st.tindices,
                         titSecond(st.state,
                                   cornerTCoord(cornerVertex(st.state, imesh,
                                                             v), imesh, t),
                                   t))]

\* the three passes for one face
corners(state, imesh, face) ==
    corner(corner(corner([state |-> state, vindices |-> <<>>,
                          tindices |-> <<>>],
                         imesh, face.a, face.ta),
                  imesh, face.b, face.tb),
           imesh, face.c, face.tc)

\* the body of the loop over imesh.faces; addFace( a, b, c ) builds
\* Face( a, b, c ), whose ta, tb, tc are 0
isolatedFace(state, imesh, face) ==
    [corners(state, imesh, face).state EXCEPT !.mesh =
        IF Len(imesh.tCoords) > 0
        THEN addFaceTextured(@, corners(state, imesh, face).vindices[1],
                             corners(state, imesh, face).vindices[2],
                             corners(state, imesh, face).vindices[3],
                             corners(state, imesh, face).tindices[1],
                             corners(state, imesh, face).tindices[2],
                             corners(state, imesh, face).tindices[3])
        ELSE addFaceTextured(@, corners(state, imesh, face).vindices[1],
                             corners(state, imesh, face).vindices[2],
                             corners(state, imesh, face).vindices[3],
                             0, 0, 0)]

\* the loop over imesh.faces from face n on
RECURSIVE isolatedFaces(_, _, _)
isolatedFaces(state, imesh, n) ==
    IF n > Len(imesh.faces) THEN state
    ELSE isolatedFaces(isolatedFace(state, imesh, imesh.faces[n]), imesh,
                       n + 1)

removeIsolatedVertices(imesh) ==
    isolatedFaces([mesh |-> [vertices |-> <<>>, tCoords |-> <<>>,
                             faces |-> <<>>],
                   vertexMap |-> <<>>, tCoordsMap |-> <<>>],
                  imesh, 1).mesh

\* the faces of a mesh with nv vertices and nt texture coordinates
IsoFaces(nv, nt) ==
    [a : 0 .. (nv - 1), b : 0 .. (nv - 1), c : 0 .. (nv - 1),
     ta : 0 .. Max2(nt - 1, 0), tb : 0 .. Max2(nt - 1, 0),
     tc : 0 .. Max2(nt - 1, 0)]

\* the meshes: vertex n lies at (n, 0, 0), texture coordinate n at (n, n);
\* every face index is valid, and no texture index is beyond the vertices
InitIsolated ==
    \E nv \in 1 .. MaxIsoVertices, nt \in 0 .. MaxIsoTCoords,
       nf \in 0 .. MaxIsoFaces :
        /\ nt <= nv
        /\ \E faces \in [1 .. nf -> IsoFaces(nv, nt)] :
              gin = [kind |-> "mesh",
                     vertices |-> [n \in 1 .. nv |-> Point3(n - 1, 0, 0)],
                     tCoords |-> [n \in 1 .. nt |-> [x |-> n - 1, y |-> n - 1]],
                     faces |-> faces]
        /\ gop = NoOp
        /\ vol = NoOp
        /\ arr = NoOp
        /\ op = NoOp
        /\ geo = NoGeo
        /\ dvField = NoDist
        /\ pc = NoDist

RemoveIsolatedVertices ==
    /\ gin.kind = "mesh" /\ gop.kind = "none"
    /\ gop' = [kind |-> "removeIsolatedVertices",
               mesh |-> removeIsolatedVertices(gin)]
    /\ UNCHANGED <<volVars, geo, gin, distVars>>

NextIsolated == RemoveIsolatedVertices

SpecIsolated == InitIsolated /\ [][NextIsolated]_vars

\* the indices of the vertices the faces of mesh m refer to
Referenced(m) ==
    UNION {{m.faces[f].a, m.faces[f].b, m.faces[f].c} :
              f \in 1 .. Len(m.faces)}

\* index i of the output mesh resolves to the coordinates index j of the
\* input mesh resolves to
SameVertex(out, i, in, j) ==
    /\ i \in 0 .. (Len(out.vertices) - 1)
    /\ out.vertices[i + 1] = in.vertices[j + 1]

\* C30: removeIsolatedVertices preserves geometry: for an input mesh with
\* valid face indices the output has the same number of faces in the same
\* order, the three vertex indices of every output face resolve to the
\* coordinates of the corresponding input face's vertices, every output
\* vertex is referenced by a face, and no input vertex referenced by a face
\* is missing.
C30_GeometryPreserved ==
    gop.kind = "removeIsolatedVertices" =>
        /\ Len(gop.mesh.faces) = Len(gin.faces)
        /\ \A f \in 1 .. Len(gin.faces) :
              /\ SameVertex(gop.mesh, gop.mesh.faces[f].a, gin, gin.faces[f].a)
              /\ SameVertex(gop.mesh, gop.mesh.faces[f].b, gin, gin.faces[f].b)
              /\ SameVertex(gop.mesh, gop.mesh.faces[f].c, gin, gin.faces[f].c)
        /\ \A i \in 0 .. (Len(gop.mesh.vertices) - 1) :
              i \in Referenced(gop.mesh)
        /\ \A j \in Referenced(gin) :
              \E i \in 1 .. Len(gop.mesh.vertices) :
                  gop.mesh.vertices[i] = gin.vertices[j + 1]

(***************************************************************************)
(* SpecLong: gend and iteratorPositions on containers with one long axis,  *)
(* of about 2^23 and 2^24 voxels, where the float u of gend no longer      *)
(* holds every whole number.  The iterators use the dimensions of the      *)
(* container only, so arr is a Container_t of dimensions without voxels.    *)
(*  The runs are those of SpecIter with a unit displacement along  *)
(* the long axis; a sweep is not run, its end is computed.                 *)
(***************************************************************************)
\* the long dimensions lie within MaxLong of 2^23 and of 2^24
MaxLong == 2

\* begin.volume->sizeX(), sizeY(), sizeZ(): what gend and
\* iteratorPositions use of a container
Container_t(sizeX, sizeY, sizeZ) ==
    [sizeX |-> sizeX, sizeY |-> sizeY, sizeZ |-> sizeZ]

LongSizes ==
    {Exp2(23) + n : n \in -MaxLong .. MaxLong}
    \cup {Exp2(24) + n : n \in -MaxLong .. MaxLong}

LongContainers ==
    UNION {{Container_t(n, 1, 1), Container_t(1, n, 1),
            Container_t(1, 1, n)} : n \in LongSizes}

\* the unit displacements along the long axis of c
LongDisplacements(c) ==
    {d \in Displacements :
        /\ Abs(d.x) + Abs(d.y) + Abs(d.z) = 1
        /\ d.x # 0 => c.sizeX > 1
        /\ d.y # 0 => c.sizeY > 1
        /\ d.z # 0 => c.sizeZ > 1}

\* the whole numbers within MaxLong of the two ends of 0 .. size - 1
NearEnds(size) ==
    {i \in 0 .. MaxLong : i < size}
    \cup {size - 1 - i : i \in {j \in 0 .. MaxLong : j < size}}

\* the in-range positions of c within MaxLong of an end on every axis
Probes(c) ==
    {Pos(i, j, k) : i \in NearEnds(c.sizeX), j \in NearEnds(c.sizeY),
                    k \in NearEnds(c.sizeZ)}

LongRuns(c) ==
    {[kind |-> "positions", diff |-> d] : d \in LongDisplacements(c)}
    \cup {[kind |-> "sweep", begin |-> Giterator_t(p, d)] :
             p \in Probes(c), d \in LongDisplacements(c)}

InitLong ==
    /\ arr \in LongContainers
    /\ gin \in LongRuns(arr)
    /\ gop = NoOp
    /\ vol = NoOp
    /\ op = NoOp
    /\ geo = NoGeo
    /\ dvField = NoDist
    /\ pc = NoDist

NextLong == IteratorPositions \/ Gend

SpecLong == InitLong /\ [][NextLong]_vars

\* the number of in-range positions of c on the line from it.pos onward,
\* for a unit displacement and an in-range it.pos
Remaining(c, it) ==
    IF it.diff.x > 0 THEN c.sizeX - it.pos.x
    ELSE IF it.diff.x < 0 THEN it.pos.x + 1
    ELSE IF it.diff.y > 0 THEN c.sizeY - it.pos.y
    ELSE IF it.diff.y < 0 THEN it.pos.y + 1
    ELSE IF it.diff.z > 0 THEN c.sizeZ - it.pos.z
    ELSE it.pos.z + 1

\* the number of passes of 'it = begin; while ( it != end ) ++it' with
\* end = gend( begin ), for a unit displacement; negative when 'it' moves
\* away from end and never equals it
Passes(c, begin) ==
    LET df == PositionDiff(gend(c, begin).pos, begin.pos)
    IN  df.x * begin.diff.x + df.y * begin.diff.y + df.z * begin.diff.z

\* position v is one of the positions the sweep of the line of c that
\* starts at position p with the unit displacement d visits
VisitedBy(c, p, d, v) ==
    LET df == PositionDiff(v, p)
        n == df.x * d.x + df.y * d.y + df.z * d.z
    IN  /\ v = PositionPlus(p, DisplacementTimes(d, n))
        /\ n >= 0
        /\ Passes(c, Giterator_t(p, d)) < 0
           \/ n < Passes(c, Giterator_t(p, d))

\* C12: for a displacement with a single nonzero unit component of either
\* sign and any grid dimensions, the lines from the positions of
\* iteratorPositions to their gend partition the volume: every in-range
\* voxel, here every one near an end of the long axis, is visited by
\* exactly one line, no line leaves the volume, and the number of start
\* positions is the product of the two orthogonal dimensions.
C12_LongLinesPartition ==
    (gop.kind = "positions" /\ UnitAxis(gin.diff)) =>
        /\ \A v \in Probes(arr) :
               Cardinality({n \in 1 .. Len(gop.res) :
                              VisitedBy(arr, gop.res[n], gin.diff, v)}) = 1
        /\ \A n \in 1 .. Len(gop.res) :
               Passes(arr, Giterator_t(gop.res[n], gin.diff))
                   \in 0 .. Remaining(arr, Giterator_t(gop.res[n], gin.diff))
        /\ Len(gop.res) =
               IF gin.diff.x # 0 THEN arr.sizeY * arr.sizeZ
               ELSE IF gin.diff.y # 0 THEN arr.sizeX * arr.sizeZ
               ELSE arr.sizeX * arr.sizeY

\* C13: for an in-range begin and a unit axis-aligned displacement of
\* either sign, end = gend( begin ) is a half-open exclusive bound of the
\* sweep 'it = begin; while ( it != end ) ++it': end is the first
\* out-of-range position of the line from begin onward, so the sweep
\* visits the in-range positions of the line and no other.
C13_EndFirstOutOfRange ==
    UnitSweep =>
        pc.end = IteratorPlus(gin.begin, Remaining(arr, gin.begin))

====
